---------------------------- MODULE Spec2Model ----------------------------
(***************************************************************************)
(* Model of the DynamoDB helpers of aws_tools: the value codec             *)
(* (_recursive_convert), the field-path renderer, the update_item          *)
(* compiler, put_item / delete_item, and the auto-resuming scan / query    *)
(* iteration.  Two implementations live in the repository and both are     *)
(* modelled: aws_tools/dynamodb_async.py (api = "async") and               *)
(* aws_tools/dynamoDB.py (api = "sync").  The remote store is the external *)
(* collaborator: its behaviour on a request is modelled by the Store*      *)
(* operators.                                                              *)
(***************************************************************************)
EXTENDS Integers, Sequences, FiniteSets, TLC

VARIABLES
    cin,      \* codec: the native value handed to the encoder
    cwire,    \* codec: the encoded (wire) value, or an error
    cback,    \* codec: the decoded value, or an error
    cpc,      \* codec: "input" | "encoded" | "decoded" | "failed"
    capi,     \* codec: which implementation runs, "async" | "sync"
    table,    \* store: the items of the table, by key
    iapi,     \* items: which implementation the caller uses
    irank,    \* items: the order in which this process iterates a set of names
    last,     \* items: the last call, its arguments and what it gave
    ncalls,   \* items: number of calls made
    incs,     \* items: the increments applied to "counter" since it was absent
    ptable,   \* pages: the items of the table in the order the store scans them
    preq,     \* pages: the arguments of the iteration
    ppc,      \* pages: where the generator stands, "request" | "yield" | "done"
    ptoken,   \* pages: next_page_token
    pitems,   \* pages: items, the page being yielded
    pidx,     \* pages: how many items of the page have been yielded
    yielded,  \* pages: the items handed to the consumer so far
    plog,     \* pages: for each page received, its length and whether it had a token
    mpc,      \* chain: where the caller chaining the pages by hand stands
    mtoken,   \* chain: the token the caller holds
    mitems,   \* chain: the pages received so far, concatenated
    mlog,     \* chain: for each call, the tokens and the length of the page
    tstatus,  \* tables: the status of the table in the store
    tlast,    \* tables: the last call on the table and what it gave
    tcalls,   \* tables: number of calls made
    xin,      \* compiler: the arguments of the call
    xout,     \* compiler: what the call built
    xpc,      \* compiler: where the call stands
    ait,      \* bridge: async_iter, the pages it fetches and the request that fails
    apc,      \* bridge: where produce() stands, "iterate" | "put" | "finally" | "done"
    apos,     \* bridge: the pages async_iter has requested, the items taken from the last
    queue,    \* bridge: queue
    exception_holder,  \* bridge: exception_holder
    ipc,      \* bridge: where the consumer of iterator() stands
    got,      \* bridge: the items iterator() has yielded
    rlog,     \* bridge: for each page request, the number of items asked for by then
    rcall,    \* run: the arguments and the thread of a _run_async call
    rpc,      \* run: where _run_async stands
    rleft,    \* run: the steps the coroutine still has to take
    rout,     \* run: what _run_async returned
    uargs,    \* concurrent calls: the arguments of the two update_item calls
    upc,      \* concurrent calls: where each call stands
    ulocals,  \* concurrent calls: the local variables of each call
    heap,     \* concurrent calls: the objects the calls hold references to
    usent     \* concurrent calls: the request each call has sent

codecVars == <<cin, cwire, cback, cpc, capi>>
itemVars == <<table, iapi, irank, last, ncalls, incs>>
chainVars == <<mpc, mtoken, mitems, mlog>>
pageVars == <<ptable, preq, ppc, ptoken, pitems, pidx, yielded, plog, chainVars>>
tableVars == <<tstatus, tlast, tcalls>>
compVars == <<xin, xout, xpc>>
bridgeVars == <<ait, apc, apos, queue, exception_holder, ipc, got, rlog>>
runVars == <<rcall, rpc, rleft, rout>>
concVars == <<uargs, upc, ulocals, heap, usent>>
syncVars == <<bridgeVars, runVars, concVars>>

Apis == {"async", "sync"}

(***************************************************************************)
(* Values.  Every value is a record tagged by t; each tag has its own      *)
(* payload field.  Numbers are counted in units of 10^-7, so that one more *)
(* fractional digit than the codec keeps is representable.                 *)
(*   native: null bool str int float list set map other(unsupported type)  *)
(*   wire  : null bool str dec list set map                                *)
(***************************************************************************)
One == 10 * 1000000

Null == [t |-> "null"]
B(b) == [t |-> "bool", b |-> b]
S(s) == [t |-> "str", s |-> s]
IntV(k) == [t |-> "int", n |-> k * One]
FloatV(u) == [t |-> "float", n |-> u]
Dec(u) == [t |-> "dec", n |-> u]
L(q) == [t |-> "list", l |-> q]
SetV(e) == [t |-> "set", e |-> e]
M(f) == [t |-> "map", m |-> f]
Other == [t |-> "other"]
Err(name) == [t |-> "err", s |-> name]

EmptyMap == [k \in {} |-> Null]
NoValue == [t |-> "none"]

IsErr(v) == v.t = "err"
IsEmptySet(v) == v.t = "set" /\ v.e = {}

\* the type name Python reports for a value: type(item).__name__
TypeName(v) ==
    CASE v.t = "int" -> "int"
      [] v.t = "float" -> "float"
      [] v.t = "dec" -> "Decimal"
      [] v.t = "other" -> "bytes"
      [] OTHER -> v.t

n_decimals == 6

Pow10(k) == IF k <= 0 THEN 1 ELSE 10 ^ k

Abs(x) == IF x < 0 THEN -x ELSE x

Min2(a, b) == IF a < b THEN a ELSE b

\* round(item, 6) of a float counted in 10^-7 units: the nearest multiple of
\* 10^-6 (inputs are chosen off the ties).
Round6(u) == ((u + 5) \div 10) * 10

\* f"{int_part}.{decimal_part[:n_decimals]}": the fractional digits of the
\* rounded number cut to n_decimals digits.
CutDecimals(u, n) ==
    LET p == Pow10(7 - n)
        a == Abs(u)
        c == a - (a % p)
    IN IF u < 0 THEN -c ELSE c

\* dynamodb_async.py: Decimal(str(round(item, 6)) cut to n_decimals digits);
\* an int has no "." in its string and is kept as it is.
EncodeNumberAsync(v) ==
    IF v.t = "int" THEN Dec(v.n) ELSE Dec(CutDecimals(Round6(v.n), n_decimals))

\* dynamoDB.py: Decimal(item), the exact value.
EncodeNumberSync(v) == Dec(v.n)

\* bool is a subclass of int: isinstance(True, (int, float)) holds, and the
\* number branch comes before the branch that lets str and bool through.
BoolAsInt(v) == IntV(IF v.b THEN 1 ELSE 0)

IsIntOrFloat(v) == v.t \in {"int", "float", "bool"}

EncodeNumber(v, api) ==
    LET w == IF v.t = "bool" THEN BoolAsInt(v) ELSE v
    IN IF api = "async" THEN EncodeNumberAsync(w) ELSE EncodeNumberSync(w)

\* float(item) if item % 1 != 0 else int(item)
DecodeNumber(v) ==
    IF v.n % One # 0 THEN FloatV(v.n) ELSE [t |-> "int", n |-> v.n]

FirstErr(q) == q[CHOOSE i \in DOMAIN q : IsErr(q[i]) /\ \A j \in DOMAIN q : j < i => ~IsErr(q[j])]

RECURSIVE _recursive_convert(_, _, _)
_recursive_convert(item, to_decimal, api) ==
    IF item.t = "list" THEN
        LET r == [i \in DOMAIN item.l |-> _recursive_convert(item.l[i], to_decimal, api)]
        IN IF \E i \in DOMAIN r : IsErr(r[i]) THEN FirstErr(r) ELSE L(r)
    ELSE IF item.t = "set" THEN
        LET r == {_recursive_convert(e, to_decimal, api) : e \in item.e}
        IN IF \E x \in r : IsErr(x) THEN CHOOSE x \in r : IsErr(x) ELSE SetV(r)
    ELSE IF item.t = "map" THEN
        \* async: "if v != set()" removes keys corresponding to empty sets
        LET keep == {k \in DOMAIN item.m : api = "sync" \/ ~IsEmptySet(item.m[k])}
            r == [k \in keep |-> _recursive_convert(item.m[k], to_decimal, api)]
        IN IF \E k \in keep : IsErr(r[k]) THEN r[CHOOSE k \in keep : IsErr(r[k])] ELSE M(r)
    ELSE IF IsIntOrFloat(item) /\ to_decimal THEN EncodeNumber(item, api)
    ELSE IF item.t = "dec" /\ ~to_decimal THEN DecodeNumber(item)
    ELSE IF item.t \in {"null", "str", "bool"} THEN item
    ELSE Err(TypeName(item))

(***************************************************************************)
(* Field paths.  A path-like is a bare string or a tuple of steps; a step  *)
(* is an attribute name or a list index.                                   *)
(***************************************************************************)
N(s) == [k |-> "name", s |-> s]
Ix(i) == [k |-> "idx", i |-> i]
Ph(i) == [k |-> "ph", i |-> i]

Bare(s) == [bare |-> TRUE, steps |-> <<N(s)>>]
Path(q) == [bare |-> FALSE, steps |-> q]

IsName(step) == step.k = "name"

Range(q) == {q[i] : i \in DOMAIN q}

IndexOf(q, x) == CHOOSE i \in DOMAIN q : q[i] = x

\* a rendering that gives every attribute name the first placeholder
_field_path_to_expression_one_placeholder(args, rank) ==
    LET targs == [j \in DOMAIN args |-> args[j].steps]
        unique_attributes ==
            UNION {{targs[j][i].s : i \in {i \in DOMAIN targs[j] : IsName(targs[j][i])}} :
                   j \in DOMAIN targs}
        Used(n) == n \in unique_attributes
        enumerated == SelectSeq(rank, Used)
        expressions ==
            [j \in DOMAIN targs |->
                [i \in DOMAIN targs[j] |->
                    IF IsName(targs[j][i]) THEN Ph(0) ELSE targs[j][i]]]
        attribute_names == [i \in 0..(Len(enumerated) - 1) |-> enumerated[i + 1]]
    IN [expressions |-> expressions, attribute_names |-> attribute_names]

\* _field_path_to_expression(*args).  rank lists the attribute names in the
\* order in which the set unique_attributes happens to be iterated.
_field_path_to_expression(args, rank) ==
    LET targs == [j \in DOMAIN args |-> args[j].steps]
        unique_attributes ==
            UNION {{targs[j][i].s : i \in {i \in DOMAIN targs[j] : IsName(targs[j][i])}} :
                   j \in DOMAIN targs}
        Used(n) == n \in unique_attributes
        enumerated == SelectSeq(rank, Used)
        attributes_mapping == [n \in unique_attributes |-> Ph(IndexOf(enumerated, n) - 1)]
        expressions ==
            [j \in DOMAIN targs |->
                [i \in DOMAIN targs[j] |->
                    IF IsName(targs[j][i]) THEN attributes_mapping[targs[j][i].s]
                    ELSE targs[j][i]]]
        attribute_names == [i \in 0..(Len(enumerated) - 1) |-> enumerated[i + 1]]
    IN [expressions |-> expressions, attribute_names |-> attribute_names]

\* the attribute_names table read backwards: {v: k for k, v in attribute_names.items()}
InverseNames(attribute_names) ==
    [n \in {attribute_names[i] : i \in DOMAIN attribute_names} |->
        Ph(CHOOSE i \in DOMAIN attribute_names : attribute_names[i] = n)]

table_keys == [HASH |-> "id", RANGE |-> "event_time"]

\* table_keys.values(), in the order of the key schema
KeyNames(tk) == <<tk["HASH"]>> \o (IF "RANGE" \in DOMAIN tk THEN <<tk["RANGE"]>> ELSE <<>>)

Cond(fn, ph) == [fn |-> fn, ph |-> ph]

_key_exists_condition(tk, attribute_names) ==
    LET attributes_mapping == InverseNames(attribute_names)
    IN <<Cond("attribute_exists", attributes_mapping[tk["HASH"]])>>
       \o (IF "RANGE" \in DOMAIN tk
           THEN <<Cond("attribute_exists", attributes_mapping[tk["RANGE"]])>> ELSE <<>>)

\* the two conditions taken one for the other
_key_not_exists_condition_swapped(tk, attribute_names) ==
    _key_exists_condition(tk, attribute_names)
_key_not_exists_condition(tk, attribute_names) ==
    LET attributes_mapping == InverseNames(attribute_names)
    IN <<Cond("attribute_not_exists", attributes_mapping[tk["HASH"]])>>
       \o (IF "RANGE" \in DOMAIN tk
           THEN <<Cond("attribute_not_exists", attributes_mapping[tk["RANGE"]])>> ELSE <<>>)

(***************************************************************************)
(* update_item: the six operation categories and their compilation into    *)
(* one UpdateItem request.                                                 *)
(***************************************************************************)
Entry(p, v) == [p |-> p, v |-> v]

EmptyPlan ==
    [put_fields |-> <<>>, increment_fields |-> <<>>, extend_sets |-> <<>>,
     remove_from_sets |-> <<>>, extend_arrays |-> <<>>, delete_fields |-> <<>>]

\* a value placeholder, ":set_value0", ":empty_list", ...
VPh(c, i) == [c |-> c, i |-> i]
NoPh == VPh("none", 0)

\* one action of the update expression
Act(a, path, val, dflt) == [a |-> a, path |-> path, val |-> val, dflt |-> dflt]

Clause(kw, actions) == [kw |-> kw, actions |-> actions]

NoRequest == [op |-> "none"]

PathsOf(entries) == [i \in DOMAIN entries |-> entries[i].p]

\* an iteration that starts again from the first expression for every category
SliceFromStart(q, from, n) == [i \in 1..n |-> q[i]]

\* expression_iterable: the next n expressions after the first `from`
Slice(q, from, n) == [i \in 1..n |-> q[from + i]]

\* the values of one category, encoded, under the placeholders :<c>0, :<c>1, ...
EncodedValues(entries, c, api) ==
    [ph \in {VPh(c, i - 1) : i \in DOMAIN entries} |->
        _recursive_convert(entries[ph.i + 1].v, TRUE, api)]

\* value if isinstance(value, set) else {value}
AsSet(v) == IF v.t = "set" THEN v ELSE SetV({v})

ListAppendDefault(api) == IF api = "async" THEN VPh("empty_list", 0) ELSE NoPh

\* the f-strings of the five loops: one action per operation
SetActions(put, exprs) ==
    [i \in DOMAIN put |-> Act("assign", exprs[i], VPh("set_value", i - 1), NoPh)]
ExtendActions(ext, exprs, api) ==
    [i \in DOMAIN ext |-> Act("list_append", exprs[i], VPh("extend_value", i - 1), ListAppendDefault(api))]
\* an increment written as a plain assignment
IncrementActionsAsAssign(inc, exprs) ==
    [i \in DOMAIN inc |-> Act("assign", exprs[i], VPh("add_value", i - 1), NoPh)]
IncrementActions(inc, exprs) ==
    [i \in DOMAIN inc |-> Act("add", exprs[i], VPh("add_value", i - 1), NoPh)]
InsertActions(ins, exprs) ==
    [i \in DOMAIN ins |-> Act("add", exprs[i], VPh("insert_value", i - 1), NoPh)]
\* a removal written into the ADD clause
PopActionsAsAdd(pop, exprs) ==
    [i \in DOMAIN pop |-> Act("add", exprs[i], VPh("pop_value", i - 1), NoPh)]
PopActions(pop, exprs) ==
    [i \in DOMAIN pop |-> Act("delete", exprs[i], VPh("pop_value", i - 1), NoPh)]
RemoveActions(exprs) ==
    [i \in DOMAIN exprs |-> Act("remove", exprs[i], NoPh, NoPh)]

\* a join that writes one clause per action
JoinClausesPerAction(set_expressions, add_expressions, delete_expressions, remove_expressions) ==
    [i \in DOMAIN set_expressions |-> Clause("SET", <<set_expressions[i]>>)]
    \o [i \in DOMAIN add_expressions |-> Clause("ADD", <<add_expressions[i]>>)]
    \o [i \in DOMAIN delete_expressions |-> Clause("DELETE", <<delete_expressions[i]>>)]
    \o [i \in DOMAIN remove_expressions |-> Clause("REMOVE", <<remove_expressions[i]>>)]

\* " ".join(f"{kw} {', '.join(expr)}" ... if len(expr) > 0)
JoinClauses(set_expressions, add_expressions, delete_expressions, remove_expressions) ==
    (IF Len(set_expressions) > 0 THEN <<Clause("SET", set_expressions)>> ELSE <<>>)
    \o (IF Len(add_expressions) > 0 THEN <<Clause("ADD", add_expressions)>> ELSE <<>>)
    \o (IF Len(delete_expressions) > 0 THEN <<Clause("DELETE", delete_expressions)>> ELSE <<>>)
    \o (IF Len(remove_expressions) > 0 THEN <<Clause("REMOVE", remove_expressions)>> ELSE <<>>)

FirstErrIn(f, phs) == f[CHOOSE ph \in phs : IsErr(f[ph])]

\* a compilation that lets the empty plan through
update_item_request_unguarded(api, key_or_item, plan, create_item_if_missing, return_object, rank, dorder) ==
    LET delete_fields == dorder
        put == plan.put_fields
        ext == plan.extend_arrays
        inc == plan.increment_fields
        ins == plan.extend_sets
        pop == [i \in DOMAIN plan.remove_from_sets |->
                   Entry(plan.remove_from_sets[i].p, AsSet(plan.remove_from_sets[i].v))]
        total == Len(put) + Len(inc) + Len(ins) + Len(pop) + Len(ext) + Len(delete_fields)
        key == [k \in Range(KeyNames(table_keys)) |-> key_or_item[k]]
        fp == _field_path_to_expression(
                  PathsOf(put) \o PathsOf(ext) \o PathsOf(inc) \o PathsOf(ins) \o PathsOf(pop)
                  \o delete_fields
                  \o (IF ~create_item_if_missing
                      THEN [i \in DOMAIN KeyNames(table_keys) |-> Bare(KeyNames(table_keys)[i])]
                      ELSE <<>>),
                  rank)
        expressions == fp.expressions
        attribute_names == fp.attribute_names
        o2 == Len(put)
        o3 == o2 + Len(ext)
        o4 == o3 + Len(inc)
        o5 == o4 + Len(ins)
        o6 == o5 + Len(pop)
        vput == EncodedValues(put, "set_value", api)
        vext == EncodedValues(ext, "extend_value", api)
        vinc == EncodedValues(inc, "add_value", api)
        vins == EncodedValues(ins, "insert_value", api)
        vpop == EncodedValues(pop, "pop_value", api)
        vdef == IF Len(ext) > 0 /\ api = "async"
                THEN (VPh("empty_list", 0) :> L(<<>>)) ELSE <<>>
        attribute_values == vput @@ vext @@ vdef @@ vinc @@ vins @@ vpop
        set_expressions ==
            SetActions(put, Slice(expressions, 0, Len(put)))
            \o ExtendActions(ext, Slice(expressions, o2, Len(ext)), api)
        add_expressions ==
            IncrementActions(inc, Slice(expressions, o3, Len(inc)))
            \o InsertActions(ins, Slice(expressions, o4, Len(ins)))
        delete_expressions == PopActions(pop, Slice(expressions, o5, Len(pop)))
        remove_expressions == RemoveActions(Slice(expressions, o6, Len(delete_fields)))
        expression == JoinClauses(set_expressions, add_expressions, delete_expressions, remove_expressions)
        failed == {ph \in DOMAIN attribute_values : IsErr(attribute_values[ph])}
    IN  IF total < 0
        THEN [raised |-> "At least one update must be made to the item", request |-> NoRequest]
        ELSE IF failed # {}
        THEN [raised |-> "ValueError", request |-> NoRequest]
        ELSE [raised |-> "",
              request |->
                [op |-> "UpdateItem",
                 Key |-> key,
                 UpdateExpression |-> expression,
                 ExpressionAttributeValues |-> attribute_values,
                 ExpressionAttributeNames |-> attribute_names,
                 ReturnValues |-> IF return_object THEN "UPDATED_NEW" ELSE "NONE",
                 ConditionExpression |->
                    IF create_item_if_missing THEN <<>>
                    ELSE _key_exists_condition(table_keys, attribute_names)]]

\* update_item up to the call of table.update_item: either the exception
\* raised before any request, or the request.  dorder is set(delete_fields)
\* in its iteration order.
update_item_request(api, key_or_item, plan, create_item_if_missing, return_object, rank, dorder) ==
    LET delete_fields == dorder
        put == plan.put_fields
        ext == plan.extend_arrays
        inc == plan.increment_fields
        ins == plan.extend_sets
        pop == [i \in DOMAIN plan.remove_from_sets |->
                   Entry(plan.remove_from_sets[i].p, AsSet(plan.remove_from_sets[i].v))]
        total == Len(put) + Len(inc) + Len(ins) + Len(pop) + Len(ext) + Len(delete_fields)
        key == [k \in Range(KeyNames(table_keys)) |-> key_or_item[k]]
        fp == _field_path_to_expression(
                  PathsOf(put) \o PathsOf(ext) \o PathsOf(inc) \o PathsOf(ins) \o PathsOf(pop)
                  \o delete_fields
                  \o (IF ~create_item_if_missing
                      THEN [i \in DOMAIN KeyNames(table_keys) |-> Bare(KeyNames(table_keys)[i])]
                      ELSE <<>>),
                  rank)
        expressions == fp.expressions
        attribute_names == fp.attribute_names
        o2 == Len(put)
        o3 == o2 + Len(ext)
        o4 == o3 + Len(inc)
        o5 == o4 + Len(ins)
        o6 == o5 + Len(pop)
        vput == EncodedValues(put, "set_value", api)
        vext == EncodedValues(ext, "extend_value", api)
        vinc == EncodedValues(inc, "add_value", api)
        vins == EncodedValues(ins, "insert_value", api)
        vpop == EncodedValues(pop, "pop_value", api)
        vdef == IF Len(ext) > 0 /\ api = "async"
                THEN (VPh("empty_list", 0) :> L(<<>>)) ELSE <<>>
        attribute_values == vput @@ vext @@ vdef @@ vinc @@ vins @@ vpop
        set_expressions ==
            SetActions(put, Slice(expressions, 0, Len(put)))
            \o ExtendActions(ext, Slice(expressions, o2, Len(ext)), api)
        add_expressions ==
            IncrementActions(inc, Slice(expressions, o3, Len(inc)))
            \o InsertActions(ins, Slice(expressions, o4, Len(ins)))
        delete_expressions == PopActions(pop, Slice(expressions, o5, Len(pop)))
        remove_expressions == RemoveActions(Slice(expressions, o6, Len(delete_fields)))
        expression == JoinClauses(set_expressions, add_expressions, delete_expressions, remove_expressions)
        failed == {ph \in DOMAIN attribute_values : IsErr(attribute_values[ph])}
    IN  IF total = 0
        THEN [raised |-> "At least one update must be made to the item", request |-> NoRequest]
        ELSE IF failed # {}
        THEN [raised |-> "ValueError", request |-> NoRequest]
        ELSE [raised |-> "",
              request |->
                [op |-> "UpdateItem",
                 Key |-> key,
                 UpdateExpression |-> expression,
                 ExpressionAttributeValues |-> attribute_values,
                 ExpressionAttributeNames |-> attribute_names,
                 ReturnValues |-> IF return_object THEN "UPDATED_NEW" ELSE "NONE",
                 ConditionExpression |->
                    IF create_item_if_missing THEN <<>>
                    ELSE _key_exists_condition(table_keys, attribute_names)]]

\* the except clauses after table.update_item: what the caller gets for a
\* store error code ("" is no error)
update_item_outcome(api, code) ==
    IF code = "" THEN "ok"
    ELSE IF code = "ConditionalCheckFailedException" THEN "DynamoDBException: item does not exist"
    ELSE IF code = "ValidationException"
    THEN (IF api = "async" THEN "DynamoDBException: validation"
          ELSE "DynamoDBException: field paths do not exist")
    ELSE code

(***************************************************************************)
(* The remote store (the collaborator behind table.put_item, update_item,  *)
(* delete_item): a table is a function from keys <<hash, range>> to items, *)
(* an item a function from attribute names to wire values.                 *)
(***************************************************************************)
Invalid == [t |-> "invalid"]

KeyOf(item) == <<item[table_keys["HASH"]].s, item[table_keys["RANGE"]].s>>

RECURSIVE GetAt(_, _)
GetAt(v, steps) ==
    IF Len(steps) = 0 THEN v
    ELSE LET h == Head(steps) IN
         IF IsName(h)
         THEN IF v.t = "map" /\ h.s \in DOMAIN v.m THEN GetAt(v.m[h.s], Tail(steps)) ELSE NoValue
         ELSE IF v.t = "list" /\ h.i < Len(v.l) THEN GetAt(v.l[h.i + 1], Tail(steps)) ELSE NoValue

\* v with the value at steps replaced by new; the parent of the last step
\* must exist (a map takes a new key, a list an index at or past its end)
RECURSIVE SetAt(_, _, _)
SetAt(v, steps, new) ==
    LET h == Head(steps)
        child == GetAt(v, <<h>>)
        sub == IF Len(steps) = 1 THEN new
               ELSE IF child = NoValue THEN Invalid
               ELSE SetAt(child, Tail(steps), new)
    IN  IF sub = Invalid THEN Invalid
        ELSE IF IsName(h)
        THEN IF v.t = "map"
             THEN M([k \in DOMAIN v.m \cup {h.s} |-> IF k = h.s THEN sub ELSE v.m[k]])
             ELSE Invalid
        ELSE IF v.t = "list"
             THEN IF h.i < Len(v.l) THEN L([v.l EXCEPT ![h.i + 1] = sub])
                  ELSE IF Len(steps) = 1 THEN L(Append(v.l, sub)) ELSE Invalid
             ELSE Invalid

RECURSIVE RemoveAt(_, _)
RemoveAt(v, steps) ==
    LET h == Head(steps)
        child == GetAt(v, <<h>>)
    IN  IF child = NoValue THEN v
        ELSE IF Len(steps) = 1
        THEN IF IsName(h) THEN M([k \in DOMAIN v.m \ {h.s} |-> v.m[k]])
             ELSE L(SubSeq(v.l, 1, h.i) \o SubSeq(v.l, h.i + 2, Len(v.l)))
        ELSE IF IsName(h) THEN M([v.m EXCEPT ![h.s] = RemoveAt(child, Tail(steps))])
        ELSE L([v.l EXCEPT ![h.i + 1] = RemoveAt(child, Tail(steps))])

\* a path expression with its placeholders replaced by the names they stand for
ResolveExpr(expr, names) ==
    [i \in DOMAIN expr |-> IF expr[i].k = "ph" THEN N(names[expr[i].i]) ELSE expr[i]]

IsPrefix(p, q) == Len(p) <= Len(q) /\ SubSeq(q, 1, Len(p)) = p

SetKind(v) == {e.t : e \in v.e}

\* one action of an update expression applied to an item (a map value)
ApplyAction(itv, act, names, values) ==
    LET path == ResolveExpr(act.path, names)
        cur == GetAt(itv, path)
        val == IF act.val = NoPh THEN NoValue ELSE values[act.val]
    IN  IF act.a = "assign" THEN SetAt(itv, path, val)
        ELSE IF act.a = "list_append" THEN
            LET base == IF cur = NoValue /\ act.dflt # NoPh THEN values[act.dflt] ELSE cur
            IN IF base.t = "list" /\ val.t = "list"
               THEN SetAt(itv, path, L(base.l \o val.l)) ELSE Invalid
        ELSE IF act.a = "add" THEN
            IF val.t = "dec"
            THEN IF cur = NoValue THEN SetAt(itv, path, val)
                 ELSE IF cur.t = "dec" THEN SetAt(itv, path, Dec(cur.n + val.n))
                 ELSE Invalid
            ELSE IF val.t = "set"
            THEN IF cur = NoValue THEN SetAt(itv, path, val)
                 ELSE IF cur.t = "set" /\ SetKind(cur) = SetKind(val)
                 THEN SetAt(itv, path, SetV(cur.e \cup val.e))
                 ELSE Invalid
            ELSE Invalid
        ELSE IF act.a = "delete" THEN
            IF val.t # "set" THEN Invalid
            ELSE IF cur = NoValue THEN itv
            ELSE IF cur.t = "set" /\ SetKind(cur) = SetKind(val)
            THEN IF cur.e \ val.e = {} THEN RemoveAt(itv, path)
                 ELSE SetAt(itv, path, SetV(cur.e \ val.e))
            ELSE Invalid
        ELSE RemoveAt(itv, path)

RECURSIVE ApplyActions(_, _, _, _)
ApplyActions(itv, acts, names, values) ==
    IF itv = Invalid \/ Len(acts) = 0 THEN itv
    ELSE ApplyActions(ApplyAction(itv, Head(acts), names, values), Tail(acts), names, values)

RECURSIVE Flatten(_)
Flatten(clauses) ==
    IF Len(clauses) = 0 THEN <<>> ELSE Head(clauses).actions \o Flatten(Tail(clauses))

\* the conjunction of attribute_exists / attribute_not_exists on the stored
\* item (an absent item has no attribute)
ConditionHolds(conds, names, tbl, k) ==
    \A i \in DOMAIN conds :
        LET present == k \in DOMAIN tbl /\ names[conds[i].ph.i] \in DOMAIN tbl[k]
        IN IF conds[i].fn = "attribute_exists" THEN present ELSE ~present

RECURSIVE WireHasEmptySet(_)
WireHasEmptySet(v) ==
    IF v.t = "set" THEN v.e = {}
    ELSE IF v.t = "list" THEN \E i \in DOMAIN v.l : WireHasEmptySet(v.l[i])
    ELSE IF v.t = "map" THEN \E k \in DOMAIN v.m : WireHasEmptySet(v.m[k])
    ELSE FALSE

\* the part of a value that lies on one of the paths (a ProjectionExpression,
\* or the attributes an update returns with UPDATED_NEW)
RECURSIVE Project(_, _)
Project(v, paths) ==
    IF \E p \in paths : Len(p) = 0 THEN v
    ELSE IF v.t = "map" THEN
        LET sub == [k \in DOMAIN v.m |->
                       Project(v.m[k], {Tail(p) : p \in {q \in paths : Head(q) = N(k)}})]
            keep == {k \in DOMAIN v.m : (\E p \in paths : Head(p) = N(k)) /\ sub[k] # NoValue}
        IN IF keep = {} THEN NoValue ELSE M([k \in keep |-> sub[k]])
    ELSE IF v.t = "list" THEN
        LET sub == [i \in DOMAIN v.l |->
                       Project(v.l[i], {Tail(p) : p \in {q \in paths : Head(q) = Ix(i - 1)}})]
            Kept(x) == x # NoValue
            kept == SelectSeq([i \in DOMAIN v.l |->
                                  IF \E p \in paths : Head(p) = Ix(i - 1) THEN sub[i] ELSE NoValue],
                              Kept)
        IN IF Len(kept) = 0 THEN NoValue ELSE L(kept)
    ELSE NoValue

StoreReply(code, tbl, attrs) == [code |-> code, table |-> tbl, Attributes |-> attrs]

\* UpdateItem: request validation, then the condition, then the update
StoreUpdateItem(tbl, req) ==
    LET k == <<req.Key[table_keys["HASH"]].s, req.Key[table_keys["RANGE"]].s>>
        names == req.ExpressionAttributeNames
        values == req.ExpressionAttributeValues
        acts == Flatten(req.UpdateExpression)
        paths == [i \in DOMAIN acts |-> ResolveExpr(acts[i].path, names)]
        overlap == \E i, j \in DOMAIN acts : i # j /\ IsPrefix(paths[i], paths[j])
        onKey == \E i \in DOMAIN acts : Head(paths[i]) \in {N(n) : n \in Range(KeyNames(table_keys))}
        badValue == \E ph \in DOMAIN values : WireHasEmptySet(values[ph])
        old == IF k \in DOMAIN tbl THEN M(tbl[k]) ELSE M(req.Key)
        new == ApplyActions(old, acts, names, values)
    IN  IF DOMAIN values = {} \/ overlap \/ onKey \/ badValue
        THEN StoreReply("ValidationException", tbl, NoValue)
        ELSE IF ~ConditionHolds(req.ConditionExpression, names, tbl, k)
        THEN StoreReply("ConditionalCheckFailedException", tbl, NoValue)
        ELSE IF new = Invalid
        THEN StoreReply("ValidationException", tbl, NoValue)
        ELSE StoreReply("",
                        [x \in DOMAIN tbl \cup {k} |-> IF x = k THEN new.m ELSE tbl[x]],
                        IF req.ReturnValues = "UPDATED_NEW"
                        THEN Project(new, Range(paths)) ELSE NoValue)

\* PutItem: the item is validated, the condition evaluated, the item replaced
StorePutItem(tbl, req) ==
    LET k == KeyOf(req.Item)
        names == req.ExpressionAttributeNames
    IN  IF WireHasEmptySet(M(req.Item))
        THEN StoreReply("ValidationException", tbl, NoValue)
        ELSE IF ~ConditionHolds(req.ConditionExpression, names, tbl, k)
        THEN StoreReply("ConditionalCheckFailedException", tbl, NoValue)
        ELSE StoreReply("",
                        [x \in DOMAIN tbl \cup {k} |-> IF x = k THEN req.Item ELSE tbl[x]],
                        IF req.ReturnValues = "ALL_OLD" /\ k \in DOMAIN tbl
                        THEN M(tbl[k]) ELSE NoValue)

\* DeleteItem
StoreDeleteItem(tbl, req) ==
    LET k == <<req.Key[table_keys["HASH"]].s, req.Key[table_keys["RANGE"]].s>>
        names == req.ExpressionAttributeNames
    IN  IF ~ConditionHolds(req.ConditionExpression, names, tbl, k)
        THEN StoreReply("ConditionalCheckFailedException", tbl, NoValue)
        ELSE StoreReply("",
                        [x \in DOMAIN tbl \ {k} |-> tbl[x]],
                        IF req.ReturnValues = "ALL_OLD" /\ k \in DOMAIN tbl
                        THEN M(tbl[k]) ELSE NoValue)

\* BatchWriteItem of put requests: the batch is refused as a whole when an
\* item is invalid or a key comes twice, else every item is written
StoreBatchPut(tbl, items) ==
    IF \/ \E i \in DOMAIN items : WireHasEmptySet(M(items[i]))
       \/ \E i, j \in DOMAIN items : i # j /\ KeyOf(items[i]) = KeyOf(items[j])
    THEN StoreReply("ValidationException", tbl, NoValue)
    ELSE StoreReply("",
                    [x \in DOMAIN tbl \cup {KeyOf(items[i]) : i \in DOMAIN items} |->
                        IF \E i \in DOMAIN items : KeyOf(items[i]) = x
                        THEN items[CHOOSE i \in DOMAIN items : KeyOf(items[i]) = x]
                        ELSE tbl[x]],
                    NoValue)

(***************************************************************************)
(* The handlers, each from its arguments and the table to what the caller  *)
(* gets and what the table becomes.                                        *)
(***************************************************************************)
Result(outcome, result, sent, tbl) ==
    [outcome |-> outcome, result |-> result, sent |-> sent, table |-> tbl]

\* _recursive_convert(response.get("Attributes"), to_decimal=False)
DecodeReply(attrs, api) ==
    IF attrs = NoValue THEN Null ELSE _recursive_convert(attrs, FALSE, api)

\* a request that carries the condition whatever overwrite is
put_item_request_always_guarded(api, item, overwrite, return_object, rank) ==
    LET keys == KeyNames(table_keys)
        fp == _field_path_to_expression([i \in DOMAIN keys |-> Bare(keys[i])], rank)
        wire == _recursive_convert(M(item), TRUE, api)
    IN  IF IsErr(wire) THEN [raised |-> "ValueError", request |-> NoRequest]
        ELSE [raised |-> "",
              request |->
                [op |-> "PutItem",
                 Item |-> wire.m,
                 ReturnValues |-> IF return_object THEN "ALL_OLD" ELSE "NONE",
                 ConditionExpression |-> _key_not_exists_condition(table_keys, fp.attribute_names),
                 ExpressionAttributeNames |-> fp.attribute_names]]

\* put_item up to the call of table.put_item
put_item_request(api, item, overwrite, return_object, rank) ==
    LET keys == KeyNames(table_keys)
        fp == _field_path_to_expression([i \in DOMAIN keys |-> Bare(keys[i])], rank)
        attribute_names == fp.attribute_names
        wire == _recursive_convert(M(item), TRUE, api)
    IN  IF IsErr(wire) THEN [raised |-> "ValueError", request |-> NoRequest]
        ELSE [raised |-> "",
              request |->
                [op |-> "PutItem",
                 Item |-> wire.m,
                 ReturnValues |-> IF return_object THEN "ALL_OLD" ELSE "NONE",
                 ConditionExpression |->
                    IF overwrite THEN <<>>
                    ELSE _key_not_exists_condition(table_keys, attribute_names),
                 ExpressionAttributeNames |-> IF overwrite THEN <<>> ELSE attribute_names]]

put_item_outcome(code) ==
    IF code = "" THEN "ok"
    ELSE IF code = "ConditionalCheckFailedException" THEN "DynamoDBException: already exists"
    ELSE code

put_item(tbl, api, item, overwrite, return_object, rank) ==
    LET c == put_item_request(api, item, overwrite, return_object, rank)
        r == StorePutItem(tbl, c.request)
    IN  IF c.raised # "" THEN Result(c.raised, Null, 0, tbl)
        ELSE IF r.code # "" THEN Result(put_item_outcome(r.code), Null, 1, r.table)
        ELSE Result("ok", DecodeReply(r.Attributes, api), 1, r.table)

\* batch_put_items: the items are encoded one after the other into the batch
\* writer, which sends what it holds when the block is left, also by an
\* exception
batch_put_items(tbl, api, items) ==
    LET wires == [i \in DOMAIN items |-> _recursive_convert(M(items[i]), TRUE, api)]
        bad == {i \in DOMAIN items : IsErr(wires[i])}
        n == IF bad = {} THEN Len(items) ELSE (CHOOSE i \in bad : \A j \in bad : i <= j) - 1
        buffered == [i \in 1..n |-> wires[i].m]
        r == StoreBatchPut(tbl, buffered)
    IN  IF n = 0 THEN Result(IF bad = {} THEN "ok" ELSE "ValueError", Null, 0, tbl)
        ELSE IF r.code # "" THEN Result(r.code, Null, 1, r.table)
        ELSE Result(IF bad = {} THEN "ok" ELSE "ValueError", Null, 1, r.table)

\* a request that never asks for the old item
delete_item_request_returning_none(key_or_item, return_object, rank) ==
    LET keys == KeyNames(table_keys)
        fp == _field_path_to_expression([i \in DOMAIN keys |-> Bare(keys[i])], rank)
    IN  [op |-> "DeleteItem",
         Key |-> [k \in Range(keys) |-> key_or_item[k]],
         ReturnValues |-> "NONE",
         ConditionExpression |-> _key_exists_condition(table_keys, fp.attribute_names),
         ExpressionAttributeNames |-> fp.attribute_names]

delete_item_request(key_or_item, return_object, rank) ==
    LET keys == KeyNames(table_keys)
        fp == _field_path_to_expression([i \in DOMAIN keys |-> Bare(keys[i])], rank)
    IN  [op |-> "DeleteItem",
         Key |-> [k \in Range(keys) |-> key_or_item[k]],
         ReturnValues |-> IF return_object THEN "ALL_OLD" ELSE "NONE",
         ConditionExpression |-> _key_exists_condition(table_keys, fp.attribute_names),
         ExpressionAttributeNames |-> fp.attribute_names]

delete_item(tbl, api, key_or_item, return_object, rank) ==
    LET r == StoreDeleteItem(tbl, delete_item_request(key_or_item, return_object, rank))
    IN  IF r.code = "ConditionalCheckFailedException" THEN Result("ok", Null, 1, r.table)
        ELSE Result("ok", DecodeReply(r.Attributes, api), 1, r.table)

\* an update_item that drops the attributes of the response
update_item_dropping_attributes(tbl, api, key_or_item, plan, create_item_if_missing, return_object, rank, dorder) ==
    LET c == update_item_request(api, key_or_item, plan, create_item_if_missing,
                                 return_object, rank, dorder)
        r == StoreUpdateItem(tbl, c.request)
    IN  IF c.raised # "" THEN Result(c.raised, Null, 0, tbl)
        ELSE IF r.code # "" THEN Result(update_item_outcome(api, r.code), Null, 1, r.table)
        ELSE Result("ok", Null, 1, r.table)

update_item(tbl, api, key_or_item, plan, create_item_if_missing, return_object, rank, dorder) ==
    LET c == update_item_request(api, key_or_item, plan, create_item_if_missing,
                                 return_object, rank, dorder)
        r == StoreUpdateItem(tbl, c.request)
    IN  IF c.raised # "" THEN Result(c.raised, Null, 0, tbl)
        ELSE IF r.code # "" THEN Result(update_item_outcome(api, r.code), Null, 1, r.table)
        ELSE Result("ok",
                    IF return_object THEN DecodeReply(r.Attributes, api) ELSE Null,
                    1, r.table)

(***************************************************************************)
(* The codec on its own: a native value is encoded, then decoded.          *)
(***************************************************************************)
MaxCodecLen == 2

SeqsUpTo(X, n) == UNION {[1..k -> X] : k \in 0..n}

CodecAtoms ==
    {Null, B(TRUE), B(FALSE), S("a"), IntV(10), FloatV(10 * One),
     FloatV(12345678), FloatV(-4), Other}

CodecSets ==
    {SetV({}), SetV({S("a")}), SetV({S("a"), S("b")}), SetV({FloatV(12345678), IntV(10)})}

CodecLeaves == CodecAtoms \cup CodecSets

CodecMapValues ==
    {IntV(10), FloatV(12345678), B(TRUE), SetV({}), SetV({S("a")}), L(<<SetV({})>>),
     M([a |-> SetV({})]), L(<<M([a |-> SetV({}), b |-> Null])>>)}

CodecInputs ==
    CodecLeaves
    \cup {L(q) : q \in SeqsUpTo(CodecLeaves, MaxCodecLen)}
    \cup {M(f) : f \in UNION {[D -> CodecMapValues] : D \in SUBSET {"a", "b"}}}

CodecIdle ==
    /\ cin = Null
    /\ cwire = NoValue
    /\ cback = NoValue
    /\ cpc = "input"
    /\ capi = "async"

ItemIdle ==
    /\ table = <<>>
    /\ iapi = "async"
    /\ irank = <<>>
    /\ last = [op |-> "none"]
    /\ ncalls = 0
    /\ incs = [on |-> FALSE, ds |-> <<>>]

NoToken == [t |-> "none"]

ChainIdle ==
    /\ mpc = "done"
    /\ mtoken = NoToken
    /\ mitems = <<>>
    /\ mlog = <<>>

PageIdle ==
    /\ ChainIdle
    /\ ptable = <<>>
    /\ preq = [kind |-> "none"]
    /\ ppc = "done"
    /\ ptoken = NoToken
    /\ pitems = <<>>
    /\ pidx = 0
    /\ yielded = <<>>
    /\ plog = <<>>

TableIdle ==
    /\ tstatus = "absent"
    /\ tlast = [op |-> "none"]
    /\ tcalls = 0

CompIdle ==
    /\ xin = [f |-> "none"]
    /\ xout = [f |-> "none"]
    /\ xpc = "done"

BridgeIdle ==
    /\ ait = [pages |-> <<>>, error |-> 0]
    /\ apc = "done"
    /\ apos = [page |-> 0, idx |-> 0]
    /\ queue = <<>>
    /\ exception_holder = <<>>
    /\ ipc = "closed"
    /\ got = <<>>
    /\ rlog = <<>>

RunIdle ==
    /\ rcall = [f |-> "none"]
    /\ rpc = "idle"
    /\ rleft = 0
    /\ rout = [f |-> "none"]

ConcIdle ==
    /\ uargs = <<>>
    /\ upc = <<>>
    /\ ulocals = <<>>
    /\ heap = <<>>
    /\ usent = <<>>

SyncIdle == BridgeIdle /\ RunIdle /\ ConcIdle

CodecInit ==
    /\ ItemIdle
    /\ PageIdle
    /\ TableIdle
    /\ CompIdle
    /\ SyncIdle
    /\ cin \in CodecInputs
    /\ capi \in Apis
    /\ cwire = NoValue
    /\ cback = NoValue
    /\ cpc = "input"

\* encode: _recursive_convert(item, to_decimal=True)
Encode ==
    /\ cpc = "input"
    /\ cwire' = _recursive_convert(cin, TRUE, capi)
    /\ cpc' = IF IsErr(cwire') THEN "failed" ELSE "encoded"
    /\ UNCHANGED <<cin, cback, capi>>
    /\ UNCHANGED <<itemVars, pageVars, tableVars, compVars, syncVars>>

\* decode: _recursive_convert(item, to_decimal=False)
Decode ==
    /\ cpc = "encoded"
    /\ cback' = _recursive_convert(cwire, FALSE, capi)
    /\ cpc' = IF IsErr(cback') THEN "failed" ELSE "decoded"
    /\ UNCHANGED <<cin, cwire, capi>>
    /\ UNCHANGED <<itemVars, pageVars, tableVars, compVars, syncVars>>

vars == <<codecVars, itemVars, pageVars, tableVars, compVars, syncVars>>

CodecNext == Encode \/ Decode

SpecCodec == CodecInit /\ [][CodecNext]_vars

(***************************************************************************)
(* What the codec claims speak about.                                      *)
(***************************************************************************)
RECURSIVE HasEmptySet(_)
HasEmptySet(v) ==
    IF v.t = "set" THEN v.e = {}
    ELSE IF v.t = "list" THEN \E i \in DOMAIN v.l : HasEmptySet(v.l[i])
    ELSE IF v.t = "map" THEN \E k \in DOMAIN v.m : HasEmptySet(v.m[k])
    ELSE FALSE

\* built from null, booleans, strings, numbers, lists, non-empty sets, maps
RECURSIVE InValueModel(_)
InValueModel(v) ==
    IF v.t \in {"null", "bool", "str", "int", "float"} THEN TRUE
    ELSE IF v.t = "set" THEN v.e # {} /\ \A e \in v.e : e.t \in {"str", "int", "float"}
    ELSE IF v.t = "list" THEN \A i \in DOMAIN v.l : InValueModel(v.l[i])
    ELSE IF v.t = "map" THEN \A k \in DOMAIN v.m : InValueModel(v.m[k])
    ELSE FALSE

\* v at 6 fractional digits, every position keeping its kind of value
RECURSIVE AtSixDigits(_)
AtSixDigits(v) ==
    IF v.t \in {"int", "float"} THEN
        LET r == IF v.t = "int" THEN v.n ELSE Round6(v.n)
        IN IF r % One = 0 THEN [t |-> "int", n |-> r] ELSE FloatV(r)
    ELSE IF v.t = "set" THEN SetV({AtSixDigits(e) : e \in v.e})
    ELSE IF v.t = "list" THEN L([i \in DOMAIN v.l |-> AtSixDigits(v.l[i])])
    ELSE IF v.t = "map" THEN M([k \in DOMAIN v.m |-> AtSixDigits(v.m[k])])
    ELSE v

\* C9: decode(encode(v)) reproduces every value v of the value model at 6
\* fractional digits, position by position and with the same kind of value
\* (a boolean comes back as a boolean); a number without fractional part
\* comes back as an integer, any other number as a float.
C9_RoundTrip ==
    (capi = "async" /\ InValueModel(cin)) =>
        /\ cpc # "failed"
        /\ cpc = "decoded" => cback = AtSixDigits(cin)

\* C10: the encoder never outputs an empty set, wherever the empty set sits
\* in the input: value of a map entry, element of a list, or the value itself.
C10_NoEmptySetEncoded ==
    (capi = "async" /\ cpc \in {"encoded", "decoded"}) => ~HasEmptySet(cwire)

(***************************************************************************)
(* Calls on the items of one table: put_item, batch_put_items, delete_item *)
(* and update_item, drawn from a catalogue of arguments.                   *)
(***************************************************************************)
MaxCalls == 2

AllNames == <<"id", "event_time", "field", "counter", "arr", "n", "tags">>

Reverse(q) == [i \in DOMAIN q |-> q[Len(q) + 1 - i]]

\* orders in which a set of attribute names may be iterated
NameOrders == {AllNames, Reverse(AllNames), Tail(AllNames) \o <<Head(AllNames)>>}

K1 == [id |-> S("p"), event_time |-> S("21h00")]
K2 == [id |-> S("p"), event_time |-> S("23h30")]

PutItems ==
    {K1,
     K1 @@ [field |-> FloatV(10 * One), tags |-> SetV({S("a"), S("b")}),
            arr |-> L(<<M([n |-> IntV(10)])>>)],
     K1 @@ [field |-> IntV(2), tags |-> SetV({})],
     K2 @@ [field |-> IntV(1)]}

Stored(item) == _recursive_convert(M(item), TRUE, "async").m

ItemTables ==
    {<<>>,
     KeyOf(K1) :> Stored(K1),
     KeyOf(K1) :> Stored(K1 @@ [field |-> IntV(10), tags |-> SetV({S("a"), S("b")}),
                                arr |-> L(<<M([n |-> IntV(10)])>>)])}

PlanPut(p, v) == [EmptyPlan EXCEPT !.put_fields = <<Entry(p, v)>>]
PlanIncrement(p, v) == [EmptyPlan EXCEPT !.increment_fields = <<Entry(p, v)>>]
PlanExtendSet(p, v) == [EmptyPlan EXCEPT !.extend_sets = <<Entry(p, v)>>]
PlanRemoveFromSet(p, v) == [EmptyPlan EXCEPT !.remove_from_sets = <<Entry(p, v)>>]
PlanExtendArray(p, v) == [EmptyPlan EXCEPT !.extend_arrays = <<Entry(p, v)>>]
PlanDelete(q) == [EmptyPlan EXCEPT !.delete_fields = q]

IncrementPlans ==
    {PlanIncrement(Bare("counter"), IntV(5)),
     PlanIncrement(Bare("counter"), IntV(3)),
     PlanIncrement(Bare("counter"), FloatV(-5000000))}

Plans ==
    IncrementPlans \cup
    {PlanPut(Bare("field"), IntV(1)),
     PlanPut(Bare("field"), Null),
     PlanPut(Path(<<N("arr"), Ix(0), N("n")>>), FloatV(35000000)),
     PlanPut(Bare("tags"), SetV({})),
     PlanExtendArray(Bare("arr"), L(<<Null>>)),
     PlanExtendSet(Bare("tags"), SetV({S("a"), S("d")})),
     PlanRemoveFromSet(Bare("tags"), SetV({S("a"), S("b")})),
     PlanRemoveFromSet(Bare("tags"), S("a")),
     PlanDelete(<<Bare("field")>>),
     [EmptyPlan EXCEPT !.put_fields = <<Entry(Bare("field"), IntV(1))>>,
                       !.increment_fields = <<Entry(Bare("field"), IntV(2))>>],
     [EmptyPlan EXCEPT !.increment_fields = <<Entry(Path(<<N("arr"), Ix(0), N("n")>>), IntV(2))>>,
                       !.remove_from_sets = <<Entry(Bare("tags"), SetV({S("b"), S("d")}))>>,
                       !.delete_fields = <<Bare("field"), Bare("field")>>],
     EmptyPlan}

\* the orders in which a set of at most two elements is iterated
Orders(set) ==
    {q \in SeqsUpTo(set, 2) : Len(q) = Cardinality(set) /\ Range(q) = set}

ItemAt(tbl, k) == IF k \in DOMAIN tbl THEN M(tbl[k]) ELSE NoValue

Call(op, key, plan, item, flag, ret, r, before) ==
    [op |-> op, key |-> key, plan |-> plan, item |-> item, flag |-> flag, ret |-> ret,
     outcome |-> r.outcome, result |-> r.result, sent |-> r.sent, before |-> before]

\* the run of increments restarts where the item exists without "counter"
TrackAfter(tbl) ==
    [on |-> KeyOf(K1) \in DOMAIN tbl /\ "counter" \notin DOMAIN tbl[KeyOf(K1)], ds |-> <<>>]

ItemInit ==
    /\ table \in ItemTables
    /\ iapi \in Apis
    /\ irank \in NameOrders
    /\ last = [op |-> "none"]
    /\ ncalls = 0
    /\ incs = TrackAfter(table)
    /\ CodecIdle
    /\ PageIdle
    /\ TableIdle
    /\ CompIdle
    /\ SyncIdle

PutItem ==
    \E item \in PutItems, overwrite \in BOOLEAN, return_object \in BOOLEAN :
        LET r == put_item(table, iapi, item, overwrite, return_object, irank) IN
        /\ ncalls < MaxCalls
        /\ table' = r.table
        /\ last' = Call("put_item", KeyOf(item), EmptyPlan, item, overwrite, return_object,
                        r, ItemAt(table, KeyOf(item)))
        /\ ncalls' = ncalls + 1
        /\ incs' = TrackAfter(r.table)
        /\ UNCHANGED <<iapi, irank, codecVars, pageVars, tableVars, compVars, syncVars>>

BatchPutItems ==
    \E items \in {<<i>> : i \in PutItems} :
        LET r == batch_put_items(table, iapi, items) IN
        /\ ncalls < MaxCalls
        /\ table' = r.table
        /\ last' = Call("batch_put_items", KeyOf(items[1]), EmptyPlan, items[1], TRUE, FALSE,
                        r, ItemAt(table, KeyOf(items[1])))
        /\ ncalls' = ncalls + 1
        /\ incs' = TrackAfter(r.table)
        /\ UNCHANGED <<iapi, irank, codecVars, pageVars, tableVars, compVars, syncVars>>

DeleteItem ==
    \E key \in {K1}, return_object \in BOOLEAN :
        LET r == delete_item(table, iapi, key, return_object, irank) IN
        /\ ncalls < MaxCalls
        /\ table' = r.table
        /\ last' = Call("delete_item", KeyOf(key), EmptyPlan, key, FALSE, return_object,
                        r, ItemAt(table, KeyOf(key)))
        /\ ncalls' = ncalls + 1
        /\ incs' = TrackAfter(r.table)
        /\ UNCHANGED <<iapi, irank, codecVars, pageVars, tableVars, compVars, syncVars>>

UpdateItem ==
    \E plan \in Plans, create_item_if_missing \in BOOLEAN, return_object \in BOOLEAN :
      \E dorder \in Orders(Range(plan.delete_fields)) :
        LET r == update_item(table, iapi, K1, plan, create_item_if_missing, return_object,
                             irank, dorder) IN
        /\ ncalls < MaxCalls
        /\ table' = r.table
        /\ last' = Call("update_item", KeyOf(K1), plan, K1, create_item_if_missing,
                        return_object, r, ItemAt(table, KeyOf(K1)))
        /\ ncalls' = ncalls + 1
        /\ incs' = IF plan \in IncrementPlans /\ incs.on
                   THEN [on |-> TRUE, ds |-> Append(incs.ds, plan.increment_fields[1].v.n)]
                   ELSE TrackAfter(r.table)
        /\ UNCHANGED <<iapi, irank, codecVars, pageVars, tableVars, compVars, syncVars>>

ItemNext == PutItem \/ BatchPutItems \/ DeleteItem \/ UpdateItem

SpecItem == ItemInit /\ [][ItemNext]_vars

(***************************************************************************)
(* Properties of the calls on items.                                       *)
(***************************************************************************)
Categories ==
    {"put_fields", "increment_fields", "extend_sets", "remove_from_sets", "extend_arrays"}

StepsOf(plan, c) ==
    IF c = "delete_fields" THEN {plan.delete_fields[i].steps : i \in DOMAIN plan.delete_fields}
    ELSE {plan[c][i].p.steps : i \in DOMAIN plan[c]}

\* the same field path in two of the six categories
Conflicting(plan) ==
    \E c, d \in Categories \cup {"delete_fields"} :
        c # d /\ StepsOf(plan, c) \cap StepsOf(plan, d) # {}

Operations(plan) ==
    Len(plan.put_fields) + Len(plan.increment_fields) + Len(plan.extend_sets)
    + Len(plan.remove_from_sets) + Len(plan.extend_arrays) + Len(plan.delete_fields)

TopLevel(plan) ==
    \A c \in Categories \cup {"delete_fields"} : \A q \in StepsOf(plan, c) : Len(q) = 1

PlanValues(plan) == UNION {{plan[c][i].v : i \in DOMAIN plan[c]} : c \in Categories}

\* a plan the store has no reason to refuse on an item without its fields
PlainPlan(plan) ==
    /\ Operations(plan) > 0
    /\ ~Conflicting(plan)
    /\ TopLevel(plan)
    /\ \A v \in PlanValues(plan) : InValueModel(v) /\ ~HasEmptySet(v)

\* C1: an update_item call whose plan names the same field path in two
\* categories fails with the conflicting-field-operation error, and no
\* request is sent to the store.
C1_ConflictRejectedBeforeRequest ==
    (last.op = "update_item" /\ Conflicting(last.plan))
        => (last.outcome = "ConflictingFieldOperation" /\ last.sent = 0)

\* C4: put_item with overwrite=False on an absent key succeeds, returns no
\* old value and stores the item; on a present key it fails with the
\* already-exists error and the stored item stays as it was (items of the
\* value model, whose sets are not empty).
C4_PutTwice ==
    (last.op = "put_item" /\ ~last.flag /\ ~HasEmptySet(M(last.item)))
        => IF last.before = NoValue
           THEN /\ last.outcome = "ok"
                /\ last.result = Null
                /\ ItemAt(table, last.key) = M(Stored(last.item))
           ELSE /\ last.outcome = "DynamoDBException: already exists"
                /\ ItemAt(table, last.key) = last.before

\* the second of two put_item calls with overwrite=False on one key, the
\* second item differing from the stored one
C4_Witness ==
    /\ ncalls = 2
    /\ last.op = "put_item" /\ ~last.flag
    /\ last.before # NoValue /\ last.before # M(Stored(last.item))
    /\ last.outcome = "DynamoDBException: already exists"
    /\ ItemAt(table, last.key) = last.before

\* C5: update_item on a key without item: with create_item_if_missing=False
\* it raises the item-does-not-exist error and the key stays without item;
\* with create_item_if_missing=True the item is created with the key
\* attributes and the updated fields.
C5_UpdateOfMissingItem ==
    (last.op = "update_item" /\ last.before = NoValue /\ PlainPlan(last.plan))
        => IF ~last.flag
           THEN /\ last.outcome = "DynamoDBException: item does not exist"
                /\ last.key \notin DOMAIN table
           ELSE /\ last.outcome = "ok"
                /\ last.key \in DOMAIN table
                /\ \A k \in DOMAIN last.item : k \in DOMAIN table[last.key]
                                               /\ table[last.key][k] = last.item[k]
                /\ \A q \in StepsOf(last.plan, "put_fields") : q[1].s \in DOMAIN table[last.key]

RECURSIVE Sum(_)
Sum(q) == IF q = <<>> THEN 0 ELSE Head(q) + Sum(Tail(q))

\* C6: from an existing item without the field "counter", after each of a
\* run of update_item calls that increment "counter" (the deltas at the
\* precision of the codec), the call has not failed and "counter" holds the
\* sum of the deltas so far.
C6_IncrementsAddUp ==
    (incs.on /\ Len(incs.ds) > 0)
        => /\ last.outcome = "ok"
           /\ KeyOf(K1) \in DOMAIN table
           /\ "counter" \in DOMAIN table[KeyOf(K1)]
           /\ table[KeyOf(K1)]["counter"] = Dec(Sum(incs.ds))

\* deltas 5 then 3 on an absent field give 8
C6_Witness ==
    /\ incs.on /\ incs.ds = <<5 * One, 3 * One>>
    /\ table[KeyOf(K1)]["counter"] = Dec(8 * One)

PureExtendArray(plan) ==
    Operations(plan) = 1 /\ Len(plan.extend_arrays) = 1 /\ Len(plan.extend_arrays[1].p.steps) = 1

PureExtendSet(plan) ==
    Operations(plan) = 1 /\ Len(plan.extend_sets) = 1 /\ Len(plan.extend_sets[1].p.steps) = 1

FieldOr(item, f, dflt) == IF f \in DOMAIN item.m THEN item.m[f] ELSE dflt

\* C7: on an existing item, extend_arrays {f: L} leaves f equal to the list
\* it held (the empty list when f was absent) followed by L, and
\* extend_sets {f: S} leaves f equal to the set it held (the empty set when
\* f was absent) united with S; neither fails when f is absent.
C7_ExtendCreatesMissingField ==
    /\ (last.op = "update_item" /\ last.before # NoValue /\ PureExtendArray(last.plan)
        /\ FieldOr(last.before, last.plan.extend_arrays[1].p.steps[1].s, L(<<>>)).t = "list")
        => LET f == last.plan.extend_arrays[1].p.steps[1].s
               v == _recursive_convert(last.plan.extend_arrays[1].v, TRUE, "async")
           IN  /\ last.outcome = "ok"
               /\ table[last.key][f] = L(FieldOr(last.before, f, L(<<>>)).l \o v.l)
    /\ (last.op = "update_item" /\ last.before # NoValue /\ PureExtendSet(last.plan)
        /\ FieldOr(last.before, last.plan.extend_sets[1].p.steps[1].s, SetV({})).t = "set")
        => LET f == last.plan.extend_sets[1].p.steps[1].s
               v == _recursive_convert(last.plan.extend_sets[1].v, TRUE, "async")
           IN  /\ last.outcome = "ok"
               /\ table[last.key][f] = SetV(FieldOr(last.before, f, SetV({})).e \cup v.e)

PureRemoveFromSet(plan) ==
    Operations(plan) = 1 /\ Len(plan.remove_from_sets) = 1
    /\ Len(plan.remove_from_sets[1].p.steps) = 1

\* the update removes every member the set field holds
RemovesLastMember(call) ==
    /\ call.op = "update_item" /\ call.before # NoValue /\ PureRemoveFromSet(call.plan)
    /\ LET f == call.plan.remove_from_sets[1].p.steps[1].s
           v == _recursive_convert(AsSet(call.plan.remove_from_sets[1].v), TRUE, "async")
       IN  /\ f \in DOMAIN call.before.m
           /\ call.before.m[f].t = "set"
           /\ call.before.m[f].e \subseteq v.e

\* C8: no stored item holds an empty set, and an update whose
\* remove_from_sets removes the last member of a set field is not an error
\* and leaves the item without that field.
C8_NoEmptySetStored ==
    /\ \A k \in DOMAIN table : ~WireHasEmptySet(M(table[k]))
    /\ RemovesLastMember(last)
        => /\ last.outcome = "ok"
           /\ last.plan.remove_from_sets[1].p.steps[1].s \notin DOMAIN table[last.key]

C8_Witness ==
    /\ RemovesLastMember(last)
    /\ last.outcome = "ok"
    /\ "tags" \notin DOMAIN table[last.key]

(***************************************************************************)
(* get_item_fields: a projected read of one item, then the requested       *)
(* paths looked up in the item the store returned.                         *)
(***************************************************************************)
\* two document paths conflict when, after a common prefix, one goes on by
\* a map key and the other by a list index
PathsConflict(p, q) ==
    \E i \in 1..Min2(Len(p), Len(q)) :
        /\ SubSeq(p, 1, i - 1) = SubSeq(q, 1, i - 1)
        /\ p[i].k # q[i].k

\* GetItem with a ProjectionExpression: the request is validated; an absent
\* item gives a response without "Item"; else the item is cut down to the
\* projected paths, a list keeping only its projected elements, one after
\* the other
StoreGetItem(tbl, req) ==
    LET k == <<req.Key[table_keys["HASH"]].s, req.Key[table_keys["RANGE"]].s>>
        names == req.ExpressionAttributeNames
        exprs == req.ProjectionExpression
        paths == [i \in DOMAIN exprs |-> ResolveExpr(exprs[i], names)]
        bad == \/ Len(exprs) = 0
               \/ \E i, j \in DOMAIN exprs :
                     i # j /\ (IsPrefix(paths[i], paths[j]) \/ PathsConflict(paths[i], paths[j]))
        cut == Project(M(tbl[k]), Range(paths))
    IN  IF bad THEN [code |-> "ValidationException", Item |-> NoValue]
        ELSE IF k \notin DOMAIN tbl THEN [code |-> "", Item |-> NoValue]
        ELSE [code |-> "", Item |-> IF cut = NoValue THEN M(EmptyMap) ELSE cut]

\* key in item, for a str key: membership in a dict, a list or a set, part
\* of a str (the names and strings used here are no part of one another),
\* TypeError for the other types
StrIn(key, item) ==
    IF item.t = "map" THEN B(key \in DOMAIN item.m)
    ELSE IF item.t = "list" THEN B(\E i \in DOMAIN item.l : item.l[i] = S(key))
    ELSE IF item.t = "set" THEN B(S(key) \in item.e)
    ELSE IF item.t = "str" THEN B(item.s = key)
    ELSE Err("TypeError")

\* item[key]
Subscript(item, key) ==
    IF IsName(key)
    THEN IF item.t = "map"
         THEN (IF key.s \in DOMAIN item.m THEN item.m[key.s] ELSE Err("KeyError"))
         ELSE Err("TypeError")
    ELSE IF item.t = "list"
         THEN (IF key.i < Len(item.l) THEN item.l[key.i + 1] ELSE Err("IndexError"))
         ELSE IF item.t = "map" THEN Err("KeyError")
         ELSE Err("TypeError")

RECURSIVE _extract_item_field_value(_, _)
_extract_item_field_value(item, field_path) ==
    IF Len(field_path) = 0 THEN item
    ELSE LET next == Subscript(item, Head(field_path))
         IN  IF IsErr(next) THEN next ELSE _extract_item_field_value(next, Tail(field_path))

\* B(TRUE), B(FALSE), or the exception raised on the way
RECURSIVE _field_exists(_, _)
_field_exists(item, field_path) ==
    IF Len(field_path) = 0 THEN B(TRUE)
    ELSE LET key == Head(field_path)
             has == IF IsName(key) THEN StrIn(key.s, item) ELSE B(TRUE)
             next == Subscript(item, key)
         IN  IF IsErr(has) THEN has
             ELSE IF IsName(key) /\ ~has.b THEN B(FALSE)
             ELSE IF ~IsName(key) /\ (item.t # "list" \/ key.i >= Len(item.l)) THEN B(FALSE)
             ELSE IF IsErr(next) THEN next
             ELSE _field_exists(next, Tail(field_path))

\* get_item_fields up to the call of table.get_item; fields is the set of
\* paths in its iteration order
get_item_fields_request(key_or_item, fields, rank) ==
    LET fp == _field_path_to_expression(fields, rank)
    IN  [op |-> "GetItem",
         Key |-> [k \in Range(KeyNames(table_keys)) |-> key_or_item[k]],
         ProjectionExpression |-> fp.expressions,
         ExpressionAttributeNames |-> fp.attribute_names]

\* get_item_fields from the response of table.get_item on.  dynamoDB.py has
\* no _field_exists: every requested path is extracted
get_item_fields_result(r, tbl, api, fields) ==
    LET item == r.Item
        exists == [i \in DOMAIN fields |->
                      IF api = "async" THEN _field_exists(item, fields[i].steps) ELSE B(TRUE)]
        kept == {i \in DOMAIN fields : ~IsErr(exists[i]) /\ exists[i].b}
        value == [i \in kept |-> _extract_item_field_value(item, fields[i].steps)]
        errors == {i \in DOMAIN fields : IsErr(exists[i])} \cup {i \in kept : IsErr(value[i])}
        first == CHOOSE i \in errors : \A j \in errors : i <= j
        found == M([f \in {fields[i] : i \in kept} |->
                       value[CHOOSE i \in kept : fields[i] = f]])
        decoded == _recursive_convert(found, FALSE, api)
    IN  IF r.code # "" THEN Result(r.code, Null, 1, tbl)
        ELSE IF item = NoValue THEN Result("ok", Null, 1, tbl)
        ELSE IF errors # {}
        THEN Result(IF IsErr(exists[first]) THEN exists[first].s ELSE value[first].s, Null, 1, tbl)
        ELSE IF IsErr(decoded) THEN Result("ValueError", Null, 1, tbl)
        ELSE Result("ok", decoded, 1, tbl)

get_item_fields(tbl, api, key_or_item, fields, rank) ==
    get_item_fields_result(
        StoreGetItem(tbl, get_item_fields_request(key_or_item, fields, rank)),
        tbl, api, fields)

FieldNames == <<"id", "event_time", "field", "arr", "n", "m", "x", "y", "missing", "tags">>

FieldNameOrders == {FieldNames, Reverse(FieldNames)}

FieldTables ==
    {<<>>,
     KeyOf(K1) :> Stored(K1),
     KeyOf(K1) :> Stored(K1 @@ [arr |-> L(<<M([n |-> IntV(10)]), M([n |-> IntV(20)])>>),
                                field |-> Null,
                                m |-> M([x |-> IntV(1)]),
                                tags |-> SetV({S("a")})])}

FieldPaths ==
    {Bare("field"), Bare("missing"), Bare("arr"),
     Path(<<N("arr"), Ix(0), N("n")>>), Path(<<N("arr"), Ix(1), N("n")>>),
     Path(<<N("arr"), Ix(1)>>), Path(<<N("arr"), Ix(5)>>),
     Path(<<N("m"), N("x")>>), Path(<<N("m"), N("y")>>), Path(<<N("m"), Ix(0)>>),
     Path(<<N("field"), N("x")>>)}

FieldValues == {FloatV(35000000), Null}

PairPaths ==
    {Bare("field"), Path(<<N("arr"), Ix(0), N("n")>>), Path(<<N("arr"), Ix(1), N("n")>>),
     Path(<<N("arr"), Ix(1)>>), Path(<<N("m"), N("x")>>)}

\* a set of one or two paths, in its iteration order
FieldSets ==
    {<<f>> : f \in FieldPaths}
    \cup {q \in SeqsUpTo(PairPaths, 2) : Len(q) = 2 /\ q[1] # q[2]}

FieldsInit ==
    /\ table \in FieldTables
    /\ iapi \in Apis
    /\ irank \in FieldNameOrders
    /\ last = [op |-> "none"]
    /\ ncalls = 0
    /\ incs = [on |-> FALSE, ds |-> <<>>]
    /\ CodecIdle
    /\ PageIdle
    /\ TableIdle
    /\ CompIdle
    /\ SyncIdle

\* update_item(key, put_fields={path: value})
PutField ==
    \E path \in FieldPaths, value \in FieldValues :
        \E r \in {update_item(table, iapi, K1, PlanPut(path, value), FALSE, FALSE, irank, <<>>)} :
            /\ ncalls < MaxCalls
            /\ table' = r.table
            /\ last' = [op |-> "update_item", path |-> path, value |-> value,
                        outcome |-> r.outcome, result |-> r.result, sent |-> r.sent,
                        resolved |-> GetAt(ItemAt(table, KeyOf(K1)), path.steps) # NoValue]
            /\ ncalls' = ncalls + 1
            /\ UNCHANGED <<iapi, irank, incs, codecVars, pageVars, tableVars, compVars, syncVars>>

\* get_item_fields(key, fields)
GetItemFields ==
    \E fields \in FieldSets :
        \E r \in {get_item_fields(table, iapi, K1, fields, irank)} :
            /\ ncalls < MaxCalls
            /\ table' = r.table
            /\ last' = [op |-> "get_item_fields", fields |-> fields,
                        outcome |-> r.outcome, result |-> r.result, sent |-> r.sent,
                        prev |-> last]
            /\ ncalls' = ncalls + 1
            /\ UNCHANGED <<iapi, irank, incs, codecVars, pageVars, tableVars, compVars, syncVars>>

FieldsNext == PutField \/ GetItemFields

SpecFields == FieldsInit /\ [][FieldsNext]_vars

\* C11: on an existing item, for a path p that resolves inside the item
\* (map keys and list indices, any index), update_item with put_fields
\* {p: v} followed by get_item_fields(key, {p}) returns {p: v}.
C11_WriteThenReadNestedPath ==
    (/\ last.op = "get_item_fields"
     /\ last.prev.op = "update_item" /\ last.prev.outcome = "ok" /\ last.prev.resolved
     /\ last.fields = <<last.prev.path>>)
        => /\ last.outcome = "ok"
           /\ last.result = M(last.prev.path :> last.prev.value)

\* paths the store accepts together in one projection
Compatible(fields) ==
    \A i, j \in DOMAIN fields :
        i # j => /\ ~IsPrefix(fields[i].steps, fields[j].steps)
                 /\ ~PathsConflict(fields[i].steps, fields[j].steps)

\* the requested paths that exist in the item, each with its value decoded
ExistingFields(item, fields) ==
    M([f \in {g \in Range(fields) : GetAt(item, g.steps) # NoValue} |->
          _recursive_convert(GetAt(item, f.steps), FALSE, "async")])

\* C12: get_item_fields returns None when the item does not exist; else it
\* returns the mapping from exactly the requested paths that exist in the
\* item to their stored values, and it does not raise when a requested path
\* is absent from the item.
C12_ReturnsExistingFields ==
    (last.op = "get_item_fields" /\ Compatible(last.fields))
        => /\ last.outcome = "ok"
           /\ last.result = IF KeyOf(K1) \in DOMAIN table
                            THEN ExistingFields(M(table[KeyOf(K1)]), last.fields)
                            ELSE Null

(***************************************************************************)
(* Pages: scan_items and query_items ask the store for one page; Scan,     *)
(* Query, scan_all_items_async and query_all_items_async loop over the     *)
(* pages and yield their items one by one.                                 *)
(***************************************************************************)
MaxPageSize == 4

\* the order of the sort keys of the catalogue
TimeRank(s) == CASE s = "21h00" -> 1 [] s = "22h15" -> 2 [] s = "23h30" -> 3

PItem(h, r, f) == [id |-> S(h), event_time |-> S(r), field |-> Dec(f * One)]

\* the items a table may hold, in the order the store scans them: partition
\* after partition, by ascending sort key inside a partition
MasterTable ==
    <<PItem("p", "21h00", 10), PItem("p", "22h15", 1), PItem("p", "23h30", 10),
      PItem("q", "21h00", 1)>>

RECURSIVE Pick(_, _, _)
Pick(q, I, i) ==
    IF i > Len(q) THEN <<>>
    ELSE (IF i \in I THEN <<q[i]>> ELSE <<>>) \o Pick(q, I, i + 1)

PageTables == {Pick(MasterTable, I, 1) : I \in SUBSET DOMAIN MasterTable}

None == [t |-> "none"]

\* Attr(name).eq(value)
AttrEq(name, value) == [t |-> "eq", name |-> name, value |-> value]

\* a key condition that keeps one bound only
KeyConditionOneBound(hash_key, sort_key_start, sort_key_end) ==
    [hash |-> hash_key,
     sort |-> IF sort_key_start # None THEN "gte"
              ELSE IF sort_key_end # None THEN "lte"
              ELSE "none",
     lo |-> sort_key_start,
     hi |-> sort_key_end]

\* the key condition query_items builds from hash_key and the sort-key interval
KeyCondition(hash_key, sort_key_start, sort_key_end) ==
    [hash |-> hash_key,
     sort |-> IF sort_key_start # None /\ sort_key_end # None THEN "between"
              ELSE IF sort_key_start # None THEN "gte"
              ELSE IF sort_key_end # None THEN "lte"
              ELSE "none",
     lo |-> sort_key_start,
     hi |-> sort_key_end]

\* kwargs that leave the start token out
PageKwargsWithoutStart(conditions, page_size, page_start_token) ==
    [FilterExpression |-> conditions, ExclusiveStartKey |-> NoToken, Limit |-> page_size]

\* kwargs of table.scan / table.query
PageKwargs(conditions, page_size, page_start_token) ==
    [FilterExpression |-> conditions, ExclusiveStartKey |-> page_start_token, Limit |-> page_size]

ScanRequest(req, page_start_token) ==
    [op |-> "Scan"] @@ PageKwargs(req.conditions, req.page_size, page_start_token)

QueryRequest(req, page_start_token) ==
    [op |-> "Query",
     KeyConditionExpression |-> KeyCondition(req.hash_key, req.sort_key_start, req.sort_key_end),
     ScanIndexForward |-> req.ascending]
    @@ PageKwargs(req.conditions, req.page_size, page_start_token)

\* the store: the items a request goes over, in order
MatchesKey(item, kc) ==
    /\ item[table_keys["HASH"]] = kc.hash
    /\ kc.sort \in {"between", "gte"} => TimeRank(item[table_keys["RANGE"]].s) >= TimeRank(kc.lo.s)
    /\ kc.sort \in {"between", "lte"} => TimeRank(item[table_keys["RANGE"]].s) <= TimeRank(kc.hi.s)

Candidates(tbl, sreq) ==
    IF sreq.op = "Scan" THEN tbl
    ELSE LET LOCAL_match(item) == MatchesKey(item, sreq.KeyConditionExpression)
             part == SelectSeq(tbl, LOCAL_match)
         IN  IF sreq.ScanIndexForward THEN part ELSE Reverse(part)

PassesFilter(item, f) ==
    f = None \/ (f.name \in DOMAIN item /\ item[f.name] = f.value)

Filtered(q, f) == LET LOCAL_pass(item) == PassesFilter(item, f) IN SelectSeq(q, LOCAL_pass)

\* where a page starts: after the item whose key is ExclusiveStartKey
StartOf(cands, token) ==
    IF token = NoToken THEN 0
    ELSE CHOOSE i \in DOMAIN cands : KeyOf(cands[i]) = token.key

Min(a, b) == IF a < b THEN a ELSE b

\* how many items the store may go over for one page: up to Limit, fewer
\* when the page reaches its size cap first, none when nothing is left
EvaluatedCounts(tbl, sreq) ==
    LET cands == Candidates(tbl, sreq)
        left == Len(cands) - StartOf(cands, sreq.ExclusiveStartKey)
    IN  IF left = 0 THEN {0} ELSE 1..Min(sreq.Limit, left)

\* the store: one page.  The filter is applied to the n items gone over;
\* LastEvaluatedKey is absent when the store ran out of items before Limit.
StorePage(tbl, sreq, n) ==
    LET cands == Candidates(tbl, sreq)
        start == StartOf(cands, sreq.ExclusiveStartKey)
        seen == [i \in 1..n |-> cands[start + i]]
        more == start + n < Len(cands) \/ (n > 0 /\ n = sreq.Limit)
    IN  [Items |-> Filtered(seen, sreq.FilterExpression),
         LastEvaluatedKey |-> IF more THEN [t |-> "key", key |-> KeyOf(cands[start + n])]
                              ELSE NoToken]

\* ([_recursive_convert(item, to_decimal=False) for item in Items], LastEvaluatedKey)
PageResult(response) ==
    [items |-> [i \in DOMAIN response.Items |->
                   _recursive_convert(M(response.Items[i]), FALSE, "async")],
     next_page_token |-> response.LastEvaluatedKey]

scan_items(tbl, req, page_start_token, n) ==
    PageResult(StorePage(tbl, ScanRequest(req, page_start_token), n))

query_items(tbl, req, page_start_token, n) ==
    PageResult(StorePage(tbl, QueryRequest(req, page_start_token), n))

\* the request of the first page, for what the iteration goes over in all
FirstRequest(req) ==
    IF req.kind = "scan" THEN ScanRequest(req, NoToken) ELSE QueryRequest(req, NoToken)

\* a loop that also stops on an empty page
LoopEndsOnEmptyPage(items, next_page_token) == next_page_token = NoToken \/ Len(items) = 0
\* if next_page_token is None: break
LoopEnds(items, next_page_token) == next_page_token = NoToken

Intervals ==
    {<<None, None>>, <<S("22h15"), None>>, <<None, S("22h15")>>, <<S("21h00"), S("22h15")>>}

Filters == {None, AttrEq("field", Dec(10 * One))}

PageRequests ==
    {[kind |-> "scan", hash_key |-> None, sort_key_start |-> None, sort_key_end |-> None,
      ascending |-> TRUE, conditions |-> f, page_size |-> k] :
        f \in Filters, k \in 1..MaxPageSize}
    \cup
    {[kind |-> "query", hash_key |-> S(h), sort_key_start |-> iv[1], sort_key_end |-> iv[2],
      ascending |-> a, conditions |-> f, page_size |-> k] :
        h \in {"p", "q"}, iv \in Intervals, a \in BOOLEAN, f \in Filters, k \in 1..MaxPageSize}

PageInit ==
    /\ ptable \in PageTables
    /\ preq \in PageRequests
    /\ ppc = "request"
    /\ ptoken = NoToken
    /\ pitems = <<>>
    /\ pidx = 0
    /\ yielded = <<>>
    /\ plog = <<>>
    /\ ChainIdle
    /\ CodecIdle
    /\ ItemIdle
    /\ TableIdle
    /\ CompIdle
    /\ SyncIdle

\* items, next_page_token = scan_items(page_start_token=next_page_token, ...)
RequestPage ==
    /\ ppc = "request"
    /\ \E n \in EvaluatedCounts(ptable, IF preq.kind = "scan" THEN ScanRequest(preq, ptoken)
                                        ELSE QueryRequest(preq, ptoken)) :
         LET r == IF preq.kind = "scan" THEN scan_items(ptable, preq, ptoken, n)
                  ELSE query_items(ptable, preq, ptoken, n)
         IN  /\ pitems' = r.items
             /\ ptoken' = r.next_page_token
             /\ plog' = Append(plog, [n |-> Len(r.items), token |-> r.next_page_token # NoToken])
    /\ pidx' = 0
    /\ ppc' = "yield"
    /\ UNCHANGED <<ptable, preq, yielded, chainVars, codecVars, itemVars, tableVars, compVars, syncVars>>

\* for item in items: yield item
YieldItem ==
    /\ ppc = "yield"
    /\ pidx < Len(pitems)
    /\ yielded' = Append(yielded, pitems[pidx + 1])
    /\ pidx' = pidx + 1
    /\ UNCHANGED <<ptable, preq, ppc, ptoken, pitems, plog, chainVars, codecVars, itemVars, tableVars, compVars, syncVars>>

\* the end of the for loop: break, or the next turn of the while loop
EndOfPage ==
    /\ ppc = "yield"
    /\ pidx = Len(pitems)
    /\ ppc' = IF LoopEnds(pitems, ptoken) THEN "done" ELSE "request"
    /\ UNCHANGED <<ptable, preq, ptoken, pitems, pidx, yielded, plog, chainVars, codecVars, itemVars, tableVars, compVars, syncVars>>

PageNext == RequestPage \/ YieldItem \/ EndOfPage

\* the consumer keeps asking for the next item
SpecPage == PageInit /\ [][PageNext]_vars /\ WF_vars(PageNext)

\* what one unpaginated scan or query returns
Unpaginated(tbl, req) ==
    LET all == Filtered(Candidates(tbl, FirstRequest(req)), req.conditions)
    IN  [i \in DOMAIN all |-> _recursive_convert(M(all[i]), FALSE, "async")]

\* C2: on a table that does not change, for every page_size >= 1, the
\* iteration comes to its end and has then yielded what one unpaginated
\* scan or query returns: every matching item once, none missing.
C2_IterationYieldsAll ==
    <>[](ppc = "done" /\ yielded = Unpaginated(ptable, preq))

\* three items yielded one per page
C2_Witness ==
    /\ ppc = "done"
    /\ preq.page_size = 1
    /\ Len(yielded) = 3
    /\ Len(plog) >= 3
    /\ yielded = Unpaginated(ptable, preq)

\* C3: the iteration stops exactly on a page without token: every page
\* followed by another request carried a token, whatever its length; the
\* iteration ends only after a page without token; and once a page with a
\* token, however short, has been yielded, the next step is a page request.
C3_StopsOnAbsentToken ==
    /\ [](\A i \in 1..(Len(plog) - 1) : plog[i].token)
    /\ [](ppc = "done" => (plog # <<>> /\ ~plog[Len(plog)].token))
    /\ [][(ppc = "yield" /\ ppc' # "yield")
            => ppc' = IF plog[Len(plog)].token THEN "request" ELSE "done"]_vars

\* an empty page with a token was followed by another request
C3_Witness ==
    /\ ppc = "done"
    /\ \E i \in 1..(Len(plog) - 1) : plog[i].n = 0 /\ plog[i].token /\ plog[i + 1].n > 0

\* the items of partition h whose sort key lies between the bounds, both
\* included, a None bound being no bound
InInterval(item, req) ==
    /\ item["id"] = req.hash_key
    /\ req.sort_key_start # None
          => TimeRank(item["event_time"].s) >= TimeRank(req.sort_key_start.s)
    /\ req.sort_key_end # None
          => TimeRank(item["event_time"].s) <= TimeRank(req.sort_key_end.s)

\* one query_items call that was given every item it goes over in one page
WholeQuery ==
    /\ preq.kind = "query" /\ preq.conditions = None
    /\ Len(plog) = 1 /\ ~plog[1].token

\* C13: query_items with hash key h and the sort-key interval (lo, hi)
\* returns, when one page holds them all, exactly the items of partition h
\* with lo <= sort key <= hi (None: no bound), by ascending sort key, or
\* descending when ascending=False.
C13_QueryInterval ==
    WholeQuery
        => /\ Range(pitems) =
                {_recursive_convert(M(ptable[i]), FALSE, "async") :
                    i \in {j \in DOMAIN ptable : InInterval(ptable[j], preq)}}
           /\ \A i, j \in DOMAIN pitems :
                 i < j => IF preq.ascending
                          THEN TimeRank(pitems[i].m["event_time"].s)
                                  < TimeRank(pitems[j].m["event_time"].s)
                          ELSE TimeRank(pitems[i].m["event_time"].s)
                                  > TimeRank(pitems[j].m["event_time"].s)

\* two of the three items of a partition, in descending order
C13_Witness ==
    /\ WholeQuery
    /\ ~preq.ascending
    /\ preq.sort_key_start = S("21h00") /\ preq.sort_key_end = S("22h15")
    /\ Len(ptable) = 4
    /\ Len(pitems) = 2
    /\ pitems[1].m["event_time"] = S("22h15")

(***************************************************************************)
(* Properties of delete_item and of put_item with overwrite=True.          *)
(***************************************************************************)
Without(tbl, k) == [x \in DOMAIN tbl \ {k} |-> tbl[x]]

\* C14 as stated: delete_item raises no error, leaves a table without the
\* item unchanged, and for every value of return_object its result tells
\* whether the item existed before the call.
C14_ResultTellsExistence ==
    [][last'.op = "delete_item"
        => /\ last'.outcome = "ok"
           /\ table' = Without(table, last'.key)
           /\ (last'.result # Null) <=> (last'.key \in DOMAIN table)]_vars

\* C14: delete_item raises no error whether or not the item exists; the
\* table afterwards is the table before without the item (unchanged when
\* there was none); with return_object=True the result is the item stored
\* before the call, None when there was none, and with return_object=False
\* the result is None in both cases.
C14_DeleteItem ==
    [][last'.op = "delete_item"
        => /\ last'.outcome = "ok"
           /\ table' = Without(table, last'.key)
           /\ last'.result = IF last'.ret /\ last'.key \in DOMAIN table
                             THEN _recursive_convert(M(table[last'.key]), FALSE, "async")
                             ELSE Null]_vars

\* an existing item deleted and returned, then deleted again
C14_Witness ==
    /\ ncalls = 2
    /\ last.op = "delete_item" /\ last.ret
    /\ last.before = NoValue /\ last.result = Null /\ last.outcome = "ok"
    /\ table = <<>>

\* C15: put_item with overwrite=True does not fail when the key exists: the
\* stored item becomes the new one, with none of the attributes of the old
\* one, and with return_object=True the result is the item stored before
\* the call, None when there was none (items of the value model, whose sets
\* are not empty).
C15_OverwriteReplaces ==
    [][(last'.op = "put_item" /\ last'.flag /\ ~HasEmptySet(M(last'.item)))
        => /\ last'.outcome = "ok"
           /\ table' = [x \in DOMAIN table \cup {last'.key} |->
                           IF x = last'.key THEN Stored(last'.item) ELSE table[x]]
           /\ last'.result = IF last'.ret /\ last'.key \in DOMAIN table
                             THEN _recursive_convert(M(table[last'.key]), FALSE, "async")
                             ELSE Null]_vars

\* an item with more attributes replaced by one that holds the key only
C15_Witness ==
    /\ last.op = "put_item" /\ last.flag /\ last.ret
    /\ last.before # NoValue /\ "arr" \in DOMAIN last.before.m
    /\ last.outcome = "ok"
    /\ last.result = _recursive_convert(last.before, FALSE, "async")
    /\ table[last.key] = Stored(K1)

(***************************************************************************)
(* Pages chained by hand: the caller calls scan_items or query_items with  *)
(* page_start_token=None, then with the token of the previous call, until  *)
(* the token returned is None; the iterator runs next to it on the same    *)
(* table and arguments.                                                    *)
(***************************************************************************)
PageRequestOf(req, page_start_token) ==
    IF req.kind = "scan" THEN ScanRequest(req, page_start_token)
    ELSE QueryRequest(req, page_start_token)

ChainInit ==
    /\ ptable \in PageTables
    /\ preq \in PageRequests
    /\ ppc = "request"
    /\ ptoken = NoToken
    /\ pitems = <<>>
    /\ pidx = 0
    /\ yielded = <<>>
    /\ plog = <<>>
    /\ mpc = "call"
    /\ mtoken = NoToken
    /\ mitems = <<>>
    /\ mlog = <<>>
    /\ CodecIdle
    /\ ItemIdle
    /\ TableIdle
    /\ CompIdle
    /\ SyncIdle

\* items, next_page_token = scan_items(..., page_start_token=next_page_token)
ManualPage ==
    /\ mpc = "call"
    /\ \E n \in EvaluatedCounts(ptable, PageRequestOf(preq, mtoken)) :
         LET sreq == PageRequestOf(preq, mtoken)
             response == StorePage(ptable, sreq, n)
             r == PageResult(response)
         IN  /\ mitems' = mitems \o r.items
             /\ mtoken' = r.next_page_token
             /\ mlog' = Append(mlog, [given |-> mtoken, sent |-> sreq.ExclusiveStartKey,
                                      got |-> response.LastEvaluatedKey,
                                      returned |-> r.next_page_token, n |-> Len(r.items)])
             /\ mpc' = IF r.next_page_token = NoToken THEN "done" ELSE "call"
    /\ UNCHANGED <<ptable, preq, ppc, ptoken, pitems, pidx, yielded, plog, codecVars, itemVars, tableVars, compVars, syncVars>>

ChainNext == ManualPage \/ RequestPage \/ YieldItem \/ EndOfPage

SpecChain == ChainInit /\ [][ChainNext]_vars

\* C16: the pages chained by hand, concatenated, are the item sequence of
\* the iterator; each call hands the caller's token to the store and the
\* store's token to the caller as they are, the first call having none and
\* each next call the token of the previous one; each page holds at most
\* page_size items.
C16_ManualChainEqualsIterator ==
    /\ (mpc = "done" /\ ppc = "done") => mitems = yielded
    /\ \A i \in DOMAIN mlog :
          /\ mlog[i].sent = mlog[i].given
          /\ mlog[i].returned = mlog[i].got
          /\ mlog[i].given = IF i = 1 THEN NoToken ELSE mlog[i - 1].returned
          /\ mlog[i].n <= preq.page_size

\* three pages chained by hand and the iterator both at their end
C16_Witness ==
    /\ mpc = "done" /\ ppc = "done"
    /\ Len(mlog) >= 3
    /\ Len(mitems) >= 2
    /\ mitems = yielded
    /\ \E i \in DOMAIN mlog : mlog[i].n # plog[i].n

(***************************************************************************)
(* Table lifecycle.  The store keeps a table in one of four statuses; a    *)
(* table being created or deleted settles on its own.  The waiters of the  *)
(* blocking calls return once the table has settled.                       *)
(***************************************************************************)
MaxTableCalls == 4

TableStatuses == {"absent", "CREATING", "ACTIVE", "DELETING"}

StoreCreateTable(status) ==
    IF status = "absent" THEN [code |-> "ok", status |-> "CREATING"]
    ELSE [code |-> "ResourceInUseException", status |-> status]

StoreDeleteTable(status) ==
    CASE status = "absent" -> [code |-> "ResourceNotFoundException", status |-> status]
      [] status = "CREATING" -> [code |-> "ResourceInUseException", status |-> status]
      [] OTHER -> [code |-> "ok", status |-> "DELETING"]

StoreDescribeTable(status) ==
    IF status = "absent" THEN [code |-> "ResourceNotFoundException"] ELSE [code |-> "ok"]

\* get_waiter('table_exists') / get_waiter('table_not_exists')
Waited(waiter) == IF waiter = "table_exists" THEN "ACTIVE" ELSE "absent"

TableResult(outcome, result, status) ==
    [outcome |-> outcome, result |-> result, status |-> status]

\* table.load(), ResourceNotFoundException raised as DynamoDBException
get_table(status) ==
    IF StoreDescribeTable(status).code = "ResourceNotFoundException"
    THEN "DynamoDBException" ELSE "ok"

table_exists(status) ==
    TableResult("ok", B(get_table(status) = "ok"), status)

create_table(status, blocking) ==
    LET r == StoreCreateTable(status) IN
    CASE r.code = "ResourceInUseException" -> TableResult("DynamoDBException", Null, r.status)
      [] r.code = "ok" ->
            TableResult("ok", Null, IF blocking THEN Waited("table_exists") ELSE r.status)
      [] OTHER -> TableResult("ClientError", Null, r.status)

delete_table(api, status, blocking) ==
    IF api = "async" /\ get_table(status) # "ok"
    THEN TableResult("DynamoDBException", Null, status)
    ELSE LET r == StoreDeleteTable(status) IN
         CASE r.code = "ResourceNotFoundException" ->
                TableResult("DynamoDBException", Null, r.status)
           [] r.code = "ok" ->
                TableResult("ok", Null, IF blocking THEN Waited("table_not_exists") ELSE r.status)
           [] OTHER -> TableResult("ClientError", Null, r.status)

TablesInit ==
    /\ tstatus \in {"absent", "ACTIVE"}
    /\ tlast = [op |-> "none"]
    /\ tcalls = 0
    /\ CodecIdle
    /\ ItemIdle
    /\ PageIdle
    /\ CompIdle
    /\ SyncIdle

TableCall(op, api, blocking, r) ==
    /\ tcalls < MaxTableCalls
    /\ tcalls' = tcalls + 1
    /\ tstatus' = r.status
    /\ tlast' = [op |-> op, api |-> api, blocking |-> blocking, before |-> tstatus,
                 after |-> r.status, outcome |-> r.outcome, result |-> r.result]
    /\ UNCHANGED <<codecVars, itemVars, pageVars, compVars, syncVars>>

CreateTable ==
    \E api \in Apis, blocking \in BOOLEAN :
        TableCall("create_table", api, blocking, create_table(tstatus, blocking))

DeleteTable ==
    \E api \in Apis, blocking \in BOOLEAN :
        TableCall("delete_table", api, blocking, delete_table(api, tstatus, blocking))

TableExists ==
    \E api \in Apis :
        TableCall("table_exists", api, TRUE, table_exists(tstatus))

\* the store finishes creating or deleting the table
StoreSettles ==
    /\ tstatus \in {"CREATING", "DELETING"}
    /\ tstatus' = IF tstatus = "CREATING" THEN "ACTIVE" ELSE "absent"
    /\ UNCHANGED <<tlast, tcalls, codecVars, itemVars, pageVars, compVars, syncVars>>

TablesNext == CreateTable \/ DeleteTable \/ TableExists \/ StoreSettles

SpecTables == TablesInit /\ [][TablesNext]_vars

Present(status) == status # "absent"

\* C17: create_table succeeds exactly when the table is absent and
\* delete_table exactly when it is present; a call that does not succeed
\* raises DynamoDBException and leaves the existence of the table as it was;
\* table_exists returns the existence and never raises.
C17_TableLifecycle ==
    /\ tlast.op = "create_table" => (tlast.outcome = "ok" <=> ~Present(tlast.before))
    /\ tlast.op = "delete_table" => (tlast.outcome = "ok" <=> Present(tlast.before))
    /\ (tlast.op \in {"create_table", "delete_table"} /\ tlast.outcome # "ok")
          => /\ tlast.outcome = "DynamoDBException"
             /\ Present(tlast.after) = Present(tlast.before)
    /\ tlast.op = "table_exists"
          => tlast.outcome = "ok" /\ tlast.result = B(Present(tlast.before))

(***************************************************************************)
(* _field_path_to_expression on its own: one call on up to MaxPaths        *)
(* path-likes, under every iteration order of the set of names.            *)
(***************************************************************************)
MaxPaths == 3

PathNames == {"a", "b", "c"}

PathRanks == {q \in [1..3 -> PathNames] : Range(q) = PathNames}

PathLikes ==
    {Bare("a"), Bare("b"), Path(<<N("a")>>), Path(<<N("a"), N("b")>>),
     Path(<<N("b"), N("a")>>), Path(<<N("a"), Ix(0)>>), Path(<<N("a"), Ix(0), N("c")>>),
     Path(<<N("a"), Ix(1), N("c")>>), Path(<<N("c"), Ix(0), Ix(1)>>)}

RECURSIVE Pieces(_)
\* the pieces of "".join("."+attributes_mapping[f] if isinstance(f, str) else f"[{f}]" ...)
Pieces(expression) ==
    IF expression = <<>> THEN <<>>
    ELSE LET step == expression[1]
             piece == IF step.k = "ph" THEN <<".", <<"#f", step.i>>>>
                      ELSE <<"[", step.i, "]">>
         IN piece \o Pieces(Tail(expression))

\* str.strip(".")
RECURSIVE StripDots(_)
StripDots(text) ==
    IF text # <<>> /\ text[1] = "." THEN StripDots(Tail(text))
    ELSE IF text # <<>> /\ text[Len(text)] = "." THEN StripDots(SubSeq(text, 1, Len(text) - 1))
    ELSE text

\* the expression as the string the function returns
ExpressionText(expression) == StripDots(Pieces(expression))

PathsInit ==
    /\ xin \in {[f |-> "_field_path_to_expression", args |-> q, rank |-> r] :
                   q \in SeqsUpTo(PathLikes, MaxPaths), r \in PathRanks}
    /\ xout = [f |-> "none"]
    /\ xpc = "call"
    /\ CodecIdle
    /\ ItemIdle
    /\ PageIdle
    /\ TableIdle
    /\ SyncIdle

RenderPaths ==
    /\ xpc = "call"
    /\ xin.f = "_field_path_to_expression"
    /\ xout' = [f |-> xin.f] @@ _field_path_to_expression(xin.args, xin.rank)
    /\ xpc' = "done"
    /\ UNCHANGED <<xin, codecVars, itemVars, pageVars, tableVars, syncVars>>

PathsNext == RenderPaths

SpecPaths == PathsInit /\ [][PathsNext]_vars

NamesOfPaths(args) ==
    UNION {{args[j].steps[i].s : i \in {i \in DOMAIN args[j].steps : IsName(args[j].steps[i])}} :
           j \in DOMAIN args}

\* C18: within one call, each distinct attribute name has one placeholder
\* and each placeholder one name, attribute_names giving the name of each
\* placeholder used; the call returns one expression per path, in the order
\* of the paths; two paths have the same expression exactly when they have
\* the same steps, a bare string being a path of one step.
C18_OneToOnePlaceholders ==
    (xpc = "done" /\ xin.f = "_field_path_to_expression") =>
        LET args == xin.args
            names == xout.attribute_names
            exprs == xout.expressions
        IN  /\ {names[i] : i \in DOMAIN names} = NamesOfPaths(args)
            /\ Cardinality(DOMAIN names) = Cardinality(NamesOfPaths(args))
            /\ DOMAIN exprs = DOMAIN args
            /\ \A j \in DOMAIN args :
                  /\ DOMAIN exprs[j] = DOMAIN args[j].steps
                  /\ \A i \in DOMAIN exprs[j] :
                        IF IsName(args[j].steps[i])
                        THEN /\ exprs[j][i].k = "ph"
                             /\ exprs[j][i].i \in DOMAIN names
                             /\ names[exprs[j][i].i] = args[j].steps[i].s
                        ELSE exprs[j][i] = args[j].steps[i]
            /\ \A j, k \in DOMAIN args :
                  ExpressionText(exprs[j]) = ExpressionText(exprs[k])
                      <=> args[j].steps = args[k].steps

\* a call on "a", ("a",) and a path sharing the name "a" with them and
\* holding a list index: two expressions equal, the third different, two
\* placeholders for four uses of names
C18_Witness ==
    /\ xpc = "done" /\ xin.f = "_field_path_to_expression"
    /\ xin.args = <<Bare("a"), Path(<<N("a"), Ix(1), N("c")>>), Path(<<N("a")>>)>>
    /\ xin.rank = <<"c", "b", "a">>
    /\ ExpressionText(xout.expressions[1]) = ExpressionText(xout.expressions[3])
    /\ ExpressionText(xout.expressions[2]) = <<<<"#f", 1>>, "[", 1, "]", ".", <<"#f", 0>>>>
    /\ Cardinality(DOMAIN xout.attribute_names) = 2

(***************************************************************************)
(* The compilation of update_item on its own: the same arguments compiled  *)
(* twice, each time under its own iteration orders of the set of attribute *)
(* names and of set(delete_fields).                                        *)
(***************************************************************************)
CompilePlans ==
    {[put_fields |-> put, extend_arrays |-> ext, increment_fields |-> inc,
      extend_sets |-> ins, remove_from_sets |-> pop, delete_fields |-> del] :
        put \in {<<>>, <<Entry(Bare("field"), IntV(1))>>,
                 <<Entry(Bare("field"), IntV(1)),
                   Entry(Path(<<N("arr"), Ix(0), N("n")>>), Null)>>},
        ext \in {<<>>, <<Entry(Bare("arr"), L(<<Null>>))>>},
        inc \in {<<>>, <<Entry(Bare("counter"), IntV(5))>>},
        ins \in {<<>>, <<Entry(Bare("tags"), SetV({S("a")}))>>},
        pop \in {<<>>, <<Entry(Bare("tags"), S("a"))>>},
        del \in {<<>>, <<Bare("field")>>, <<Bare("field"), Bare("field")>>,
                 <<Bare("field"), Path(<<N("arr"), Ix(0)>>)>>}}

CompileCalls ==
    UNION {{[f |-> "update_item", api |-> api, plan |-> plan,
             create_item_if_missing |-> flag, ranks |-> <<r1, r2>>,
             dorders |-> <<d1, d2>>] :
               api \in Apis, flag \in BOOLEAN, r1 \in NameOrders, r2 \in NameOrders,
               d1 \in Orders(Range(plan.delete_fields)),
               d2 \in Orders(Range(plan.delete_fields))} :
           plan \in CompilePlans}

CompileInit ==
    /\ xin \in CompileCalls
    /\ xout = <<>>
    /\ xpc = "call"
    /\ CodecIdle
    /\ ItemIdle
    /\ PageIdle
    /\ TableIdle
    /\ SyncIdle

\* one compilation: update_item up to the call of table.update_item
Compile ==
    /\ xpc = "call"
    /\ xin.f = "update_item"
    /\ LET n == Len(xout) + 1 IN
         /\ xout' = Append(xout, update_item_request(xin.api, K1, xin.plan,
                                     xin.create_item_if_missing, FALSE,
                                     xin.ranks[n], xin.dorders[n]))
         /\ xpc' = IF n = 2 THEN "done" ELSE "call"
    /\ UNCHANGED <<xin, codecVars, itemVars, pageVars, tableVars, syncVars>>

CompileNext == Compile

SpecCompile == CompileInit /\ [][CompileNext]_vars

Keywords(expression) == [i \in DOMAIN expression |-> expression[i].kw]

KeywordRank(kw) == IndexOf(<<"SET", "ADD", "DELETE", "REMOVE">>, kw)

Count(q, x) == Cardinality({i \in DOMAIN q : q[i] = x})

Operation(kw, a, steps, value) == [kw |-> kw, a |-> a, steps |-> steps, value |-> value]

OperationsOf(entries, kw, a, api) ==
    [i \in DOMAIN entries |->
        Operation(kw, a, entries[i].p.steps, _recursive_convert(entries[i].v, TRUE, api))]

\* the operations asked for: one per entry of the five dicts and one per
\* element of set(delete_fields)
Requested(plan, api, dorder) ==
    OperationsOf(plan.put_fields, "SET", "assign", api)
    \o OperationsOf(plan.extend_arrays, "SET", "list_append", api)
    \o OperationsOf(plan.increment_fields, "ADD", "add", api)
    \o OperationsOf(plan.extend_sets, "ADD", "add", api)
    \o OperationsOf([i \in DOMAIN plan.remove_from_sets |->
                        Entry(plan.remove_from_sets[i].p, AsSet(plan.remove_from_sets[i].v))],
                    "DELETE", "delete", api)
    \o [i \in DOMAIN dorder |-> Operation("REMOVE", "remove", dorder[i].steps, NoValue)]

ValueOf(ph, values) == IF ph = NoPh THEN NoValue ELSE values[ph]

\* the operations written in the expression, each under the keyword of its
\* clause, names and values put in place of their placeholders
RECURSIVE Written(_, _, _)
Written(expression, names, values) ==
    IF expression = <<>> THEN <<>>
    ELSE LET c == Head(expression) IN
         [i \in DOMAIN c.actions |->
             Operation(c.kw, c.actions[i].a, ResolveExpr(c.actions[i].path, names),
                       ValueOf(c.actions[i].val, values))]
         \o Written(Tail(expression), names, values)

ClausesAsRequested(request, plan, api, dorder) ==
    LET expression == request.UpdateExpression
        kws == Range(Keywords(expression))
        asked == Requested(plan, api, dorder)
        written == Written(expression, request.ExpressionAttributeNames,
                           request.ExpressionAttributeValues)
    IN  /\ "SET" \in kws <=> Len(plan.put_fields) + Len(plan.extend_arrays) > 0
        /\ "ADD" \in kws <=> Len(plan.increment_fields) + Len(plan.extend_sets) > 0
        /\ "DELETE" \in kws <=> Len(plan.remove_from_sets) > 0
        /\ "REMOVE" \in kws <=> Len(plan.delete_fields) > 0
        /\ kws \subseteq {"SET", "ADD", "DELETE", "REMOVE"}
        /\ \A i, j \in DOMAIN expression :
              i < j => KeywordRank(expression[i].kw) < KeywordRank(expression[j].kw)
        /\ \A i \in DOMAIN expression : Len(expression[i].actions) > 0
        /\ Len(written) = Len(asked)
        /\ \A i \in DOMAIN asked : Count(written, asked[i]) = Count(asked, asked[i])

\* C19: the update expression has a SET clause exactly when put_fields or
\* extend_arrays is non-empty, an ADD clause exactly when increment_fields
\* or extend_sets is, a DELETE clause exactly when remove_from_sets is and a
\* REMOVE clause exactly when delete_fields is; the keywords are written at
\* most once each, in the order SET, ADD, DELETE, REMOVE, and each operation
\* asked for is written once, under the keyword of its category.
C19_ClausesOfTheExpression ==
    \A n \in DOMAIN xout :
        (xin.f = "update_item" /\ xout[n].raised = "")
            => ClausesAsRequested(xout[n].request, xin.plan, xin.api, xin.dorders[n])

\* a compilation with the six categories asked for, two paths to delete
C19_Witness ==
    /\ xpc = "done" /\ xin.f = "update_item"
    /\ xout[1].raised = ""
    /\ Keywords(xout[1].request.UpdateExpression) = <<"SET", "ADD", "DELETE", "REMOVE">>
    /\ Len(xin.plan.put_fields) = 2 /\ Len(xin.plan.extend_arrays) = 1
    /\ Len(xin.plan.increment_fields) = 1 /\ Len(xin.plan.extend_sets) = 1
    /\ Len(xin.plan.remove_from_sets) = 1
    /\ Cardinality(Range(xin.plan.delete_fields)) = 2
    /\ Len(Flatten(xout[1].request.UpdateExpression)) = 8

\* a request with every placeholder replaced by the name or the value it
\* stands for
Substituted(request) ==
    LET names == request.ExpressionAttributeNames
        values == request.ExpressionAttributeValues
    IN [Key |-> request.Key,
        UpdateExpression |->
            [i \in DOMAIN request.UpdateExpression |->
                LET c == request.UpdateExpression[i] IN
                Clause(c.kw, [j \in DOMAIN c.actions |->
                    Act(c.actions[j].a, ResolveExpr(c.actions[j].path, names),
                        ValueOf(c.actions[j].val, values), ValueOf(c.actions[j].dflt, values))])],
        ConditionExpression |->
            [i \in DOMAIN request.ConditionExpression |->
                Cond(request.ConditionExpression[i].fn, N(names[request.ConditionExpression[i].ph.i]))],
        ExpressionAttributeNames |-> {names[i] : i \in DOMAIN names},
        ExpressionAttributeValues |-> {values[ph] : ph \in DOMAIN values},
        ReturnValues |-> request.ReturnValues]

\* C20: two compilations of the same arguments raise the same exception or
\* build requests that are the same once every placeholder is replaced by
\* what it stands for, whatever the iteration orders of the set of
\* attribute names and of set(delete_fields).
C20_CompilerDeterministic ==
    (xpc = "done" /\ xin.f = "update_item") =>
        /\ xout[1].raised = xout[2].raised
        /\ xout[1].raised = "" => Substituted(xout[1].request) = Substituted(xout[2].request)

(***************************************************************************)
(* What update_item returns.                                               *)
(***************************************************************************)
\* the paths the operations of a plan are about
TouchedPaths(plan) ==
    {e.p.steps : e \in Range(plan.put_fields) \cup Range(plan.extend_arrays)
                       \cup Range(plan.increment_fields) \cup Range(plan.extend_sets)
                       \cup Range(plan.remove_from_sets)}
    \cup {p.steps : p \in Range(plan.delete_fields)}

\* C21: an update_item that returns gives None when return_object is False;
\* else it has asked the store for the updated attributes only
\* (UPDATED_NEW) and it returns the values, after the update, of the paths
\* of its operations and of nothing else: no attribute outside these paths,
\* and no field that delete_fields removed.
C21_ReturnsUpdatedAttributes ==
    (last.op = "update_item" /\ last.outcome = "ok") =>
        LET after == Project(ItemAt(table, last.key), TouchedPaths(last.plan))
            sent == update_item_request(iapi, last.item, last.plan, last.flag, last.ret,
                                        irank, last.plan.delete_fields).request
        IN  /\ sent.ReturnValues = IF last.ret THEN "UPDATED_NEW" ELSE "NONE"
            /\ ~last.ret => last.result = Null
            /\ last.ret =>
                  last.result = IF after = NoValue THEN Null
                                ELSE _recursive_convert(after, FALSE, iapi)
            /\ (last.ret /\ last.result # Null) =>
                  /\ \A k \in DOMAIN last.result.m : \E p \in TouchedPaths(last.plan) : p[1] = N(k)
                  /\ \A p \in Range(last.plan.delete_fields) :
                        Len(p.steps) = 1 => p.steps[1].s \notin DOMAIN last.result.m

\* an update that increments a nested number, removes elements of a set and
\* deletes a field, on an item that holds more than what is returned
C21_Witness ==
    /\ last.op = "update_item" /\ last.outcome = "ok" /\ last.ret
    /\ Len(last.plan.increment_fields) = 1 /\ Len(last.plan.remove_from_sets) = 1
    /\ Len(last.plan.delete_fields) > 0
    /\ last.before # NoValue /\ "field" \in DOMAIN last.before.m
    /\ last.result # Null
    /\ "arr" \in DOMAIN last.result.m
    /\ "field" \notin DOMAIN last.result.m
    /\ DOMAIN last.result.m # DOMAIN table[last.key]

(***************************************************************************)
(* Errors of the store and what the caller gets for them.                  *)
(***************************************************************************)
\* the error code with which the store answers the request of a call made
\* on the table tbl ("" is no error)
StoreCodeOf(tbl, call) ==
    IF call.op = "put_item"
    THEN StorePutItem(tbl, put_item_request(iapi, call.item, call.flag, call.ret, irank).request).code
    ELSE StoreUpdateItem(tbl, update_item_request(iapi, call.item, call.plan, call.flag, call.ret,
                                  irank,
                                  CHOOSE d \in Orders(Range(call.plan.delete_fields)) : TRUE).request).code

\* C22: put_item and update_item translate the failure of their condition
\* only; an error of the store with another code reaches the caller as it
\* is, and a call sends its request once at most.
C22_ErrorTranslation ==
    [][(last'.op \in {"put_item", "update_item"} /\ last'.sent > 0) =>
          LET code == StoreCodeOf(table, last') IN
          /\ last'.sent = 1
          /\ code = "" => last'.outcome = "ok"
          /\ code = "ConditionalCheckFailedException" =>
                last'.outcome = IF last'.op = "put_item"
                                THEN "DynamoDBException: already exists"
                                ELSE "DynamoDBException: item does not exist"
          /\ code \notin {"", "ConditionalCheckFailedException"} => last'.outcome = code]_vars

\* C23: update_item called with its six categories empty raises "At least
\* one update must be made to the item", sends no request and leaves the
\* table as it was.
C23_EmptyUpdateRejected ==
    [][(last'.op = "update_item" /\ last'.plan = EmptyPlan) =>
          /\ last'.outcome = "At least one update must be made to the item"
          /\ last'.sent = 0
          /\ table' = table]_vars

\* the empty update has been called on a table that holds an item
C23_Witness ==
    /\ last.op = "update_item" /\ last.plan = EmptyPlan
    /\ last.outcome = "At least one update must be made to the item"
    /\ last.before # NoValue
    /\ table # <<>>

(***************************************************************************)
(* Writes of values that hold an element of a type the codec refuses.      *)
(***************************************************************************)
WriteValues ==
    {IntV(1), S("a"), Other, Dec(One), L(<<IntV(1), Other>>), M([a |-> L(<<Other>>)]),
     SetV({S("a"), Other}), M([a |-> IntV(1), b |-> M([c |-> Dec(One)])])}

WriteItems == {k @@ [field |-> v] : k \in {K1, K2}, v \in WriteValues}

WriteBatches ==
    {<<i>> : i \in WriteItems}
    \cup {<<K1 @@ [field |-> IntV(1)], K2 @@ [field |-> v]>> : v \in WriteValues}

WritesInit ==
    /\ table \in {<<>>, KeyOf(K1) :> Stored(K1)}
    /\ iapi \in Apis
    /\ irank \in NameOrders
    /\ last = [op |-> "none"]
    /\ ncalls = 0
    /\ incs = [on |-> FALSE, ds |-> <<>>]
    /\ CodecIdle
    /\ PageIdle
    /\ TableIdle
    /\ CompIdle
    /\ SyncIdle

\* one write: the values handed to the codec, what the caller gets, the
\* number of requests sent and the table before
Written1(op, values, r) ==
    /\ ncalls < MaxCalls
    /\ table' = r.table
    /\ last' = [op |-> op, values |-> values, outcome |-> r.outcome, sent |-> r.sent,
                before |-> table]
    /\ ncalls' = ncalls + 1
    /\ UNCHANGED <<iapi, irank, incs, codecVars, pageVars, tableVars, compVars, syncVars>>

WritePut ==
    \E item \in WriteItems :
        \E r \in {put_item(table, iapi, item, TRUE, FALSE, irank)} :
            Written1("put_item", <<M(item)>>, r)

WriteBatch ==
    \E items \in WriteBatches :
        \E r \in {batch_put_items(table, iapi, items)} :
            Written1("batch_put_items", [i \in DOMAIN items |-> M(items[i])], r)

WriteUpdate ==
    \E v \in WriteValues :
        \E r \in {update_item(table, iapi, K1, PlanPut(Bare("field"), v), TRUE, FALSE, irank, <<>>)} :
            Written1("update_item", <<v>>, r)

WritesNext == WritePut \/ WriteBatch \/ WriteUpdate

SpecWrites == WritesInit /\ [][WritesNext]_vars

\* the type names of the elements of a value, at any depth, that lie
\* outside the native value model (to_decimal) or the wire value model
RECURSIVE RefusedTypes(_, _)
RefusedTypes(v, to_decimal) ==
    IF v.t = "list" THEN UNION {RefusedTypes(v.l[i], to_decimal) : i \in DOMAIN v.l}
    ELSE IF v.t = "set" THEN UNION {RefusedTypes(e, to_decimal) : e \in v.e}
    ELSE IF v.t = "map" THEN UNION {RefusedTypes(v.m[k], to_decimal) : k \in DOMAIN v.m}
    ELSE IF v.t = "other" THEN {TypeName(v)}
    ELSE IF to_decimal /\ v.t = "dec" THEN {TypeName(v)}
    ELSE IF ~to_decimal /\ v.t \in {"int", "float"} THEN {TypeName(v)}
    ELSE {}

\* C24: a value that holds, at any depth, an element of a type outside the
\* value model is refused by the encoder and by the decoder with an error
\* that names such a type and nothing else comes out; the write that
\* handed the value to the encoder raises, sends no request and leaves the
\* table as it was.
C24_RefusedTypeAbortsTheWrite ==
    \A i \in (IF last.op = "none" THEN {} ELSE DOMAIN last.values) :
        /\ \A to_decimal \in BOOLEAN :
              RefusedTypes(last.values[i], to_decimal) # {} =>
                  LET out == _recursive_convert(last.values[i], to_decimal, iapi)
                  IN  IsErr(out) /\ out.s \in RefusedTypes(last.values[i], to_decimal)
        /\ RefusedTypes(last.values[i], TRUE) # {} =>
              /\ last.outcome = "ValueError"
              /\ last.sent = 0
              /\ table = last.before

\* the operations of the request in the order they are written, paired
\* with the operations asked for in the order of the call: put_fields,
\* extend_arrays, increment_fields, extend_sets, remove_from_sets, then
\* set(delete_fields)
PairedByPosition(request, plan, api, dorder) ==
    LET acts == Flatten(request.UpdateExpression)
        asked == Requested(plan, api, dorder)
        names == request.ExpressionAttributeNames
        values == request.ExpressionAttributeValues
    IN  /\ Len(acts) = Len(asked)
        /\ \A k \in DOMAIN acts :
              /\ ResolveExpr(acts[k].path, names) = asked[k].steps
              /\ asked[k].kw # "REMOVE" =>
                    /\ acts[k].val \in DOMAIN values
                    /\ values[acts[k].val] = asked[k].value
              /\ asked[k].kw = "REMOVE" => acts[k].val = NoPh
              /\ \A l \in DOMAIN acts :
                    (l # k /\ acts[k].val # NoPh) => acts[l].val # acts[k].val
              /\ ResolveExpr(acts[k].path, names)
                    \notin {<<N(KeyNames(table_keys)[i])>> : i \in DOMAIN KeyNames(table_keys)}

\* C28: in every request update_item builds, the k-th operation written is
\* the k-th operation asked for: its path expression renders its own field
\* path, its value placeholder is its own, used by no other operation, and
\* stands in the value table for its own encoded value; the expressions of
\* the key attributes appended for the condition are used by no operation.
C28_PositionalPairing ==
    \A n \in DOMAIN xout :
        (xin.f = "update_item" /\ xout[n].raised = "")
            => PairedByPosition(xout[n].request, xin.plan, xin.api, xin.dorders[n])

\* eight operations over the six categories, with the condition on the key
C28_Witness ==
    /\ xpc = "done" /\ xin.f = "update_item"
    /\ ~xin.create_item_if_missing
    /\ xout[2].raised = ""
    /\ Len(Flatten(xout[2].request.UpdateExpression)) = 8
    /\ Len(xout[2].request.ConditionExpression) = 2

\* the name placeholders written in a path expression
NamePlaceholders(expr) == {expr[i].i : i \in {j \in DOMAIN expr : expr[j].k = "ph"}}

\* the placeholders an UpdateItem request refers to and the tables it carries
NamesReferred(request) ==
    UNION {NamePlaceholders(a.path) : a \in Range(Flatten(request.UpdateExpression))}
    \cup {request.ConditionExpression[i].ph.i : i \in DOMAIN request.ConditionExpression}

ValuesReferred(request) ==
    ({a.val : a \in Range(Flatten(request.UpdateExpression))}
     \cup {a.dflt : a \in Range(Flatten(request.UpdateExpression))}) \ {NoPh}

\* C30: in every request update_item sends, the placeholders written in
\* the update and condition expressions are exactly the entries of the name
\* table and of the value table of the request, and a table is passed with
\* the request only when it has an entry (update_item passes both tables
\* with every request).
C30_WellFormedTables ==
    \A n \in DOMAIN xout :
        (xin.f = "update_item" /\ xout[n].raised = "") =>
            LET request == xout[n].request IN
            /\ NamesReferred(request) = DOMAIN request.ExpressionAttributeNames
            /\ ValuesReferred(request) = DOMAIN request.ExpressionAttributeValues
            /\ DOMAIN request.ExpressionAttributeNames # {}
            /\ DOMAIN request.ExpressionAttributeValues # {}

(***************************************************************************)
(* The synchronous wrappers: _async_iter_to_sync runs an asynchronous      *)
(* iterator on an event loop of its own, in a thread of its own, and hands *)
(* its items to the calling thread through a queue; _run_async runs one    *)
(* coroutine to its end.                                                    *)
(***************************************************************************)
MaxPages == 3
MaxPageLen == 2
MaxAwaits == 2

\* sentinel = object()
Sentinel == [t |-> "sentinel"]

\* asyncio.Queue(maxsize=1)
maxsize == 1

RECURSIVE Fetched(_, _)
\* the number of items in the first k pages
Fetched(pages, k) == IF k = 0 THEN 0 ELSE Fetched(pages, k - 1) + Len(pages[k])

RECURSIVE SumTo(_, _)
SumTo(lens, k) == IF k = 0 THEN 0 ELSE SumTo(lens, k - 1) + lens[k]

\* an iteration over pages of the given lengths: items 1, 2, 3, ...
PagesOf(lens) ==
    [k \in DOMAIN lens |-> [i \in 1..lens[k] |-> IntV(SumTo(lens, k - 1) + i)]]

\* async_iter: the pages of scan_all_items_async / query_all_items_async,
\* the last one without token; error = k: the k-th page request raises
Aits ==
    UNION {{[pages |-> PagesOf(lens), error |-> e] :
               lens \in [1..n -> 0..MaxPageLen], e \in 0..n} : n \in 1..MaxPages}

\* what async_iter produces: the items of the pages before the failing request
Produced(a) ==
    LET n == IF a.error = 0 THEN Len(a.pages) ELSE a.error - 1
        LOCAL_flat[k \in 0..n] ==
            IF k = 0 THEN <<>> ELSE LOCAL_flat[k - 1] \o a.pages[k]
    IN  LOCAL_flat[n]

\* a coroutine that awaits a few times and then returns its result
RunCalls ==
    {[f |-> "_run_async", loop |-> l, awaits |-> n, result |-> v] :
        l \in BOOLEAN, n \in 0..MaxAwaits, v \in {S("a"), Null}}

SyncInit ==
    /\ CodecIdle
    /\ ItemIdle
    /\ PageIdle
    /\ TableIdle
    /\ CompIdle
    /\ ConcIdle
    /\ \/ /\ ait \in Aits
          /\ apc = "iterate"
          /\ apos = [page |-> 0, idx |-> 0]
          /\ queue = <<>>
          /\ exception_holder = <<>>
          /\ ipc = "idle"
          /\ got = <<>>
          /\ rlog = <<>>
          /\ RunIdle
       \/ /\ BridgeIdle
          /\ rcall \in RunCalls
          /\ rpc = "call"
          /\ rleft = rcall.awaits + 1
          /\ rout = [f |-> "none"]

\* the loop of the bridge runs from thread.start() to loop.stop in the
\* finally of iterator(); a generator closed before its first next() never
\* enters its try block
LoopRuns == ipc \in {"idle", "get", "abandoned"}

\* the number of items the consumer has asked for
Asked == Len(got) + (IF ipc = "get" THEN 1 ELSE 0)

\* async for item in async_iter: the generator sends the request of its next page
AitRequest ==
    /\ apc = "iterate" /\ LoopRuns
    /\ IF apos.page = 0 THEN TRUE ELSE apos.idx = Len(ait.pages[apos.page])
    /\ apos.page < Len(ait.pages)
    /\ rlog' = Append(rlog, [asked |-> Asked, fetched |-> Fetched(ait.pages, apos.page)])
    /\ IF ait.error = apos.page + 1
       THEN \* except Exception as e: exception_holder.append(e)
            /\ exception_holder' = Append(exception_holder, "ClientError")
            /\ apc' = "finally"
            /\ UNCHANGED apos
       ELSE /\ apos' = [page |-> apos.page + 1, idx |-> 0]
            /\ UNCHANGED <<exception_holder, apc>>
    /\ UNCHANGED <<ait, queue, ipc, got, runVars>>
    /\ UNCHANGED <<codecVars, itemVars, pageVars, tableVars, compVars, concVars>>

\* async for item in async_iter: the generator yields the next item of its page
AitYield ==
    /\ apc = "iterate" /\ LoopRuns
    /\ apos.page > 0 /\ apos.idx < Len(ait.pages[apos.page])
    /\ apos' = [apos EXCEPT !.idx = @ + 1]
    /\ apc' = "put"
    /\ UNCHANGED <<ait, queue, exception_holder, ipc, got, rlog, runVars>>
    /\ UNCHANGED <<codecVars, itemVars, pageVars, tableVars, compVars, concVars>>

\* async for item in async_iter: the generator ends after its last page
AitEnds ==
    /\ apc = "iterate" /\ LoopRuns
    /\ apos.page = Len(ait.pages) /\ apos.idx = Len(ait.pages[apos.page])
    /\ apc' = "finally"
    /\ UNCHANGED <<ait, apos, queue, exception_holder, ipc, got, rlog, runVars>>
    /\ UNCHANGED <<codecVars, itemVars, pageVars, tableVars, compVars, concVars>>

\* await queue.put(item): waits while the queue is full
QueuePut ==
    /\ apc = "put" /\ LoopRuns
    /\ Len(queue) < maxsize
    /\ queue' = Append(queue, ait.pages[apos.page][apos.idx])
    /\ apc' = "iterate"
    /\ UNCHANGED <<ait, apos, exception_holder, ipc, got, rlog, runVars>>
    /\ UNCHANGED <<codecVars, itemVars, pageVars, tableVars, compVars, concVars>>

\* finally: await queue.put(sentinel)
PutSentinel ==
    /\ apc = "finally" /\ LoopRuns
    /\ Len(queue) < maxsize
    /\ queue' = Append(queue, Sentinel)
    /\ apc' = "done"
    /\ UNCHANGED <<ait, apos, exception_holder, ipc, got, rlog, runVars>>
    /\ UNCHANGED <<codecVars, itemVars, pageVars, tableVars, compVars, concVars>>

\* the consumer asks for the next item: next(iterator)
ConsumerNext ==
    /\ ipc = "idle"
    /\ ipc' = "get"
    /\ UNCHANGED <<ait, apc, apos, queue, exception_holder, got, rlog, runVars>>
    /\ UNCHANGED <<codecVars, itemVars, pageVars, tableVars, compVars, concVars>>

\* a variant of iterator() that ends on the sentinel whatever exception_holder holds
iterator_step_ignoring_holder(item, holder) ==
    IF item = Sentinel THEN "ended" ELSE "idle"

\* if item is sentinel: if exception_holder: raise exception_holder[0]; break
\* yield item
iterator_step(item, holder) ==
    IF item = Sentinel
    THEN (IF holder # <<>> THEN "raised" ELSE "ended")
    ELSE "idle"

\* item = asyncio.run_coroutine_threadsafe(queue.get(), loop).result()
QueueGet ==
    /\ ipc = "get"
    /\ queue # <<>>
    /\ queue' = Tail(queue)
    /\ ipc' = iterator_step(Head(queue), exception_holder)
    /\ got' = IF Head(queue) = Sentinel THEN got ELSE Append(got, Head(queue))
    /\ UNCHANGED <<ait, apc, apos, exception_holder, rlog, runVars>>
    /\ UNCHANGED <<codecVars, itemVars, pageVars, tableVars, compVars, concVars>>

\* the consumer stops before the end and drops the iterator: the finally
\* of iterator() stops the loop, unless the generator had not started
ConsumerStops ==
    /\ ipc = "idle"
    /\ ipc' = IF got = <<>> THEN "abandoned" ELSE "closed"
    /\ UNCHANGED <<ait, apc, apos, queue, exception_holder, got, rlog, runVars>>
    /\ UNCHANGED <<codecVars, itemVars, pageVars, tableVars, compVars, concVars>>

\* loop = asyncio.get_running_loop(); if loop and loop.is_running():
\*     return asyncio.run_coroutine_threadsafe(coro, loop).result()
\* else: return asyncio.run(coro)
RunAsyncCall ==
    /\ rpc = "call"
    /\ rpc' = IF rcall.loop THEN "result" ELSE "run"
    /\ UNCHANGED <<rcall, rleft, rout, bridgeVars>>
    /\ UNCHANGED <<codecVars, itemVars, pageVars, tableVars, compVars, concVars>>

\* the thread of the loop the coroutine was handed to is free to run it:
\* asyncio.run drives its own new loop; the running loop of the calling
\* thread runs nothing while that thread waits in Future.result()
LoopThreadFree(pc) == pc = "run"

\* the loop runs the coroutine up to its next await, or to its return
CoroutineStep ==
    /\ rpc \in {"run", "result"}
    /\ LoopThreadFree(rpc)
    /\ rleft > 0
    /\ rleft' = rleft - 1
    /\ UNCHANGED <<rcall, rpc, rout, bridgeVars>>
    /\ UNCHANGED <<codecVars, itemVars, pageVars, tableVars, compVars, concVars>>

\* the coroutine has returned: asyncio.run / Future.result() returns its result
RunAsyncReturns ==
    /\ rpc \in {"run", "result"}
    /\ rleft = 0
    /\ rpc' = "returned"
    /\ rout' = rcall.result
    /\ UNCHANGED <<rcall, rleft, bridgeVars>>
    /\ UNCHANGED <<codecVars, itemVars, pageVars, tableVars, compVars, concVars>>

BridgeNext ==
    \/ AitRequest \/ AitYield \/ AitEnds \/ QueuePut \/ PutSentinel
    \/ ConsumerNext \/ QueueGet \/ ConsumerStops

RunNext == RunAsyncCall \/ CoroutineStep \/ RunAsyncReturns

SyncNext == BridgeNext \/ RunNext

SpecSync == SyncInit /\ [][SyncNext]_vars

\* the loops run what is ready and the threads are scheduled
SpecSyncFair == SyncInit /\ [][SyncNext]_vars /\ WF_vars(RunNext)

\* C25: the page requests of the iteration are sent on demand: a page is
\* requested only once the consumer has asked for an item beyond those of
\* the pages fetched so far, and no page is requested after the consumer
\* has stopped; claimed for the synchronous scan_all_items and
\* query_all_items as for the generators.
C25_PagesOnDemand ==
    /\ [](\A i \in DOMAIN rlog : rlog[i].asked > rlog[i].fetched)
    /\ [][(ipc \in {"closed", "abandoned"}) => (rlog' = rlog)]_vars

\* C29: whatever the interleaving of the producer and the consumer,
\* iterator() yields the items of async_iter in their order, none lost and
\* none twice; it ends normally only after the last item of an async_iter
\* that ended, and raises only the exception async_iter raised, after every
\* item produced before it; a consumer that waits is never left waiting.
C29_BridgeHandsOver ==
    /\ IsPrefix(got, Produced(ait))
    /\ ipc = "ended" => (got = Produced(ait) /\ ait.error = 0)
    /\ ipc = "raised" => (got = Produced(ait) /\ ait.error # 0
                          /\ exception_holder = <<"ClientError">>)
    /\ ipc = "get" => (queue # <<>> \/ apc # "done")

\* two items came through, then the exception of the third page request
C29_Witness ==
    /\ ipc = "raised"
    /\ Len(got) >= 2
    /\ ait.error = 3

\* C27: _run_async(coro) eventually returns the result of the coroutine,
\* with no event loop running in the calling thread as from code that runs
\* inside a running event loop.
C27_RunAsyncReturns ==
    (rpc = "call") ~> (rpc = "returned" /\ rout = rcall.result)

(***************************************************************************)
(* Two update_item calls that run at the same time, as tasks of one loop   *)
(* or as threads: the objects each call reads and writes.  An argument     *)
(* left out is bound to the default object of the function, the same for   *)
(* every call; the tables of a call are objects created by the call.       *)
(***************************************************************************)
UpdateArguments ==
    <<"put_fields", "extend_arrays", "increment_fields", "extend_sets",
      "remove_from_sets", "delete_fields">>

\* put_fields: dict = {}, ..., delete_fields = []: one object per parameter,
\* created when the function is defined
DefaultArg(c) == [o |-> c, call |-> 0]

\* the object the caller passes for a parameter
CallerArg(c, call) == [o |-> c, call |-> call]

\* one value table for all the calls
NewObjectShared(name, call) ==
    [o |-> name, call |-> IF name = "attribute_values" THEN 0 ELSE call]

\* attribute_values = {}; the dict built by _field_path_to_expression
NewObject(name, call) == [o |-> name, call |-> call]

ConcPlans ==
    {PlanPut(Bare("field"), IntV(1)),
     [EmptyPlan EXCEPT !.increment_fields = <<Entry(Bare("counter"), IntV(5))>>,
                       !.delete_fields = <<Bare("field"), Path(<<N("arr"), Ix(0)>>)>>],
     [EmptyPlan EXCEPT !.put_fields = <<Entry(Bare("field"), S("a"))>>,
                       !.extend_arrays = <<Entry(Bare("arr"), L(<<Null>>))>>],
     [EmptyPlan EXCEPT !.extend_sets = <<Entry(Bare("tags"), SetV({S("a")}))>>,
                       !.remove_from_sets = <<Entry(Bare("counter"), S("b"))>>]}

ConcCalls ==
    {[api |-> api, key_or_item |-> k, plan |-> plan, create_item_if_missing |-> flag] :
        api \in Apis, k \in {K1, K2}, plan \in ConcPlans, flag \in BOOLEAN}

\* the object bound to parameter c of call p
ArgRef(p, c) ==
    IF uargs[p].plan[c] = <<>> THEN DefaultArg(c) ELSE CallerArg(c, p)

ConcInit ==
    /\ CodecIdle
    /\ ItemIdle
    /\ PageIdle
    /\ TableIdle
    /\ CompIdle
    /\ BridgeIdle
    /\ RunIdle
    /\ uargs \in [1..2 -> ConcCalls]
    /\ upc = [p \in 1..2 |-> "call"]
    /\ ulocals = [p \in 1..2 |-> [f |-> "none"]]
    /\ heap = [ref \in {DefaultArg(UpdateArguments[i]) : i \in DOMAIN UpdateArguments}
                       \cup {CallerArg(UpdateArguments[i], p) : i \in DOMAIN UpdateArguments, p \in 1..2}
                  |-> IF ref.call = 0 THEN <<>> ELSE uargs[ref.call].plan[ref.o]]
    /\ usent = [p \in 1..2 |-> NoRequest]

\* the arguments of call p as the call reads them
ArgsRead(p) ==
    [c \in Range(UpdateArguments) |-> heap[ArgRef(p, c)]]

\* the order in which call p iterates the attribute names
RankOf(p) == IF p = 1 THEN AllNames ELSE Reverse(AllNames)

\* delete_fields = set(delete_fields); expressions, attribute_names =
\* _field_path_to_expression(...); attribute_values = {}
ConcNames ==
    \E p \in 1..2 :
        /\ upc[p] = "call"
        /\ \E plan \in {ArgsRead(p)} :
           \E delete_fields \in Orders(Range(plan.delete_fields)) :
           \E fp \in {_field_path_to_expression(
                         PathsOf(plan.put_fields) \o PathsOf(plan.extend_arrays)
                         \o PathsOf(plan.increment_fields) \o PathsOf(plan.extend_sets)
                         \o PathsOf(plan.remove_from_sets) \o delete_fields
                         \o (IF ~uargs[p].create_item_if_missing
                             THEN [i \in DOMAIN KeyNames(table_keys) |->
                                      Bare(KeyNames(table_keys)[i])]
                             ELSE <<>>),
                         RankOf(p))} :
             /\ ulocals' = [ulocals EXCEPT ![p] =
                   [delete_fields |-> delete_fields,
                    expressions |-> fp.expressions,
                    attribute_names |-> NewObject("attribute_names", p),
                    attribute_values |-> NewObject("attribute_values", p),
                    set_expressions |-> <<>>, add_expressions |-> <<>>,
                    delete_expressions |-> <<>>, remove_expressions |-> <<>>]]
             /\ heap' = (NewObject("attribute_names", p) :> fp.attribute_names)
                        @@ (NewObject("attribute_values", p) :> <<>>) @@ heap
        /\ upc' = [upc EXCEPT ![p] = "set"]
        /\ UNCHANGED <<uargs, usent>>
        /\ UNCHANGED <<codecVars, itemVars, pageVars, tableVars, compVars, bridgeVars, runVars>>

\* the loops over put_fields and extend_arrays
ConcSet ==
    \E p \in 1..2 :
        /\ upc[p] = "set"
        /\ \E plan \in {ArgsRead(p)} :
           LET l == ulocals[p]
               put == plan.put_fields
               ext == plan.extend_arrays
               vdef == IF Len(ext) > 0 /\ uargs[p].api = "async"
                       THEN (VPh("empty_list", 0) :> L(<<>>)) ELSE <<>>
           IN /\ heap' = [heap EXCEPT ![l.attribute_values] =
                            EncodedValues(put, "set_value", uargs[p].api)
                            @@ EncodedValues(ext, "extend_value", uargs[p].api) @@ vdef @@ @]
              /\ ulocals' = [ulocals EXCEPT ![p].set_expressions =
                            SetActions(put, Slice(l.expressions, 0, Len(put)))
                            \o ExtendActions(ext, Slice(l.expressions, Len(put), Len(ext)), uargs[p].api)]
        /\ upc' = [upc EXCEPT ![p] = "add"]
        /\ UNCHANGED <<uargs, usent>>
        /\ UNCHANGED <<codecVars, itemVars, pageVars, tableVars, compVars, bridgeVars, runVars>>

\* the loops over increment_fields and extend_sets
ConcAdd ==
    \E p \in 1..2 :
        /\ upc[p] = "add"
        /\ \E plan \in {ArgsRead(p)} :
           LET l == ulocals[p]
               inc == plan.increment_fields
               ins == plan.extend_sets
               o3 == Len(plan.put_fields) + Len(plan.extend_arrays)
           IN /\ heap' = [heap EXCEPT ![l.attribute_values] =
                            EncodedValues(inc, "add_value", uargs[p].api)
                            @@ EncodedValues(ins, "insert_value", uargs[p].api) @@ @]
              /\ ulocals' = [ulocals EXCEPT ![p].add_expressions =
                            IncrementActions(inc, Slice(l.expressions, o3, Len(inc)))
                            \o InsertActions(ins, Slice(l.expressions, o3 + Len(inc), Len(ins)))]
        /\ upc' = [upc EXCEPT ![p] = "delete"]
        /\ UNCHANGED <<uargs, usent>>
        /\ UNCHANGED <<codecVars, itemVars, pageVars, tableVars, compVars, bridgeVars, runVars>>

\* the loops over remove_from_sets and delete_fields
ConcDelete ==
    \E p \in 1..2 :
        /\ upc[p] = "delete"
        /\ \E plan \in {ArgsRead(p)} :
           LET l == ulocals[p]
               pop == [i \in DOMAIN plan.remove_from_sets |->
                          Entry(plan.remove_from_sets[i].p, AsSet(plan.remove_from_sets[i].v))]
               o5 == Len(plan.put_fields) + Len(plan.extend_arrays)
                     + Len(plan.increment_fields) + Len(plan.extend_sets)
           IN /\ heap' = [heap EXCEPT ![l.attribute_values] =
                            EncodedValues(pop, "pop_value", uargs[p].api) @@ @]
              /\ ulocals' = [ulocals EXCEPT
                    ![p].delete_expressions = PopActions(pop, Slice(l.expressions, o5, Len(pop))),
                    ![p].remove_expressions =
                        RemoveActions(Slice(l.expressions, o5 + Len(pop), Len(l.delete_fields)))]
        /\ upc' = [upc EXCEPT ![p] = "send"]
        /\ UNCHANGED <<uargs, usent>>
        /\ UNCHANGED <<codecVars, itemVars, pageVars, tableVars, compVars, bridgeVars, runVars>>

\* table.update_item(Key=key, UpdateExpression=expression, ...)
ConcSend ==
    \E p \in 1..2 :
        /\ upc[p] = "send"
        /\ LET l == ulocals[p]
               attribute_names == heap[l.attribute_names]
           IN usent' = [usent EXCEPT ![p] =
                [op |-> "UpdateItem",
                 Key |-> [k \in Range(KeyNames(table_keys)) |-> uargs[p].key_or_item[k]],
                 UpdateExpression |-> JoinClauses(l.set_expressions, l.add_expressions,
                                                  l.delete_expressions, l.remove_expressions),
                 ExpressionAttributeValues |-> heap[l.attribute_values],
                 ExpressionAttributeNames |-> attribute_names,
                 ReturnValues |-> "NONE",
                 ConditionExpression |->
                    IF uargs[p].create_item_if_missing THEN <<>>
                    ELSE _key_exists_condition(table_keys, attribute_names)]]
        /\ upc' = [upc EXCEPT ![p] = "sent"]
        /\ UNCHANGED <<uargs, ulocals, heap>>
        /\ UNCHANGED <<codecVars, itemVars, pageVars, tableVars, compVars, bridgeVars, runVars>>

ConcNext == ConcNames \/ ConcSet \/ ConcAdd \/ ConcDelete \/ ConcSend

SpecConcurrent == ConcInit /\ [][ConcNext]_vars

=============================================================================
